---- MODULE Spec2Model ----
(***************************************************************************)
(* A model of the Azure alert analysis engine: the per-subscription        *)
(* analyzer (analyze_alerts.py: analyze_alerts, generate_report, __main__) *)
(* and the tenant rollup (create_consolidated_dashboard.py).               *)
(*                                                                         *)
(* Python values are tagged records, so that a field of any runtime shape  *)
(* can be stored in an alert and compared.  A Counter / dict is a sequence *)
(* of [k, n] entries in insertion order, as Python dicts keep it.          *)
(***************************************************************************)
EXTENDS Integers, Sequences, FiniteSets, TLC

VARIABLES
    activity_alerts,   \* content of activity_alerts.json (a list of records)
    alert_history,     \* content of alert_history.json (a list of records)
    days_back,         \* sys.argv[1] as an int (default 7)
    analysis,          \* the dict returned by analyze_alerts
    report,            \* what generate_report computed (or the exception)
    subscription_dirs, \* the subscription directories, in listing order
    consolidated,      \* the dict returned by aggregate_subscription_data
    dashboard,         \* the percentages create_consolidated_dashboard renders
    analysis_data,     \* content of analysis_data.json
    pc,                \* position in the batch run
    az_faults,         \* how az answers for each subscription
    parallel_processing, \* config['parallel_processing']
    stats,             \* self.stats of the crawler
    tasks,             \* the _collect_subscription_data call of each subscription
    analysis_132921    \* what analyze_alerts of the 132921 variant returned

crawler_vars == <<az_faults, parallel_processing, stats, tasks>>

vars == <<activity_alerts, alert_history, days_back, analysis, report,
          subscription_dirs, consolidated, dashboard, analysis_data, pc,
          az_faults, parallel_processing, stats, tasks, analysis_132921>>

-----------------------------------------------------------------------------
(* Python values *)

Missing == [t |-> "missing"]
None == [t |-> "none"]
Str(s) == [t |-> "str", s |-> s]
Num(n) == [t |-> "num", n |-> n]
Bool(b) == [t |-> "bool", b |-> b]
List(items) == [t |-> "list", items |-> items]
Dict(value, localizedValue) ==
    [t |-> "dict", value |-> value, localizedValue |-> localizedValue]

\* dict.get(key): a missing key reads as None
Get(v) == IF v.t = "missing" THEN None ELSE v

\* bool(v)
Truthy(v) ==
    CASE v.t = "str" -> v.s # ""
      [] v.t = "num" -> v.n # 0
      [] v.t = "bool" -> v.b
      [] v.t = "list" -> v.items # <<>>
      [] v.t = "dict" -> ~(v.value.t = "missing" /\ v.localizedValue.t = "missing")
      [] OTHER -> FALSE

\* str(v) on the values of the model
PyStr(v) ==
    CASE v.t = "str" -> v.s
      [] v = Num(5) -> "5"
      [] v = Bool(TRUE) -> "True"
      [] v = List(<<"a">>) -> "['a']"
      [] v = Dict(None, None) -> "{'value': None, 'localizedValue': None}"
      [] v = Dict(Str(""), Missing) -> "{'value': ''}"
      [] OTHER -> "?"

\* `x and isinstance(x, str)`
IsNonEmptyStr(v) == Truthy(Get(v)) /\ Get(v).t = "str"

\* isinstance(x, str)
IsStr(v) == Get(v).t = "str"

-----------------------------------------------------------------------------
(* Counter and dict, in insertion order *)

RECURSIVE SumSeq(_)
SumSeq(s) == IF s = <<>> THEN 0 ELSE Head(s) + SumSeq(Tail(s))

Keys(c) == {c[i].k : i \in DOMAIN c}

Index(c, key) == CHOOSE i \in DOMAIN c : c[i].k = key

\* c[key] of a Counter / defaultdict(int), without inserting
Count(c, key) == IF key \in Keys(c) THEN c[Index(c, key)].n ELSE 0

\* c[key] += n
AddOverwrite(c, key, n) ==
    IF key \in Keys(c)
    THEN [c EXCEPT ![Index(c, key)].n = n]
    ELSE Append(c, [k |-> key, n |-> n])

Add(c, key, n) ==
    IF key \in Keys(c)
    THEN [c EXCEPT ![Index(c, key)].n = @ + n]
    ELSE Append(c, [k |-> key, n |-> n])

IncTwice(c, key) == Add(c, key, 2)

Inc(c, key) == Add(c, key, 1)

\* The position at which sorted(..., key=count, reverse=True) puts entry i:
\* entries with a larger count come first, equal counts keep insertion order.
RankLatestFirst(c, i) ==
    1 + Cardinality({j \in DOMAIN c :
                       c[j].n > c[i].n \/ (c[j].n = c[i].n /\ j > i)})

Rank(c, i) ==
    1 + Cardinality({j \in DOMAIN c :
                       c[j].n > c[i].n \/ (c[j].n = c[i].n /\ j < i)})

\* Counter.most_common(): all entries, by decreasing count, stable
SortedByCount(c) ==
    [p \in DOMAIN c |-> c[CHOOSE i \in DOMAIN c : Rank(c, i) = p]]

Min(a, b) == IF a < b THEN a ELSE b

Max(a, b) == IF a > b THEN a ELSE b

\* Counter.most_common(n)
MostCommon(c, n) == SubSeq(SortedByCount(c), 1, Min(n, Len(c)))

-----------------------------------------------------------------------------
(* datetime *)

ValueError == [ok |-> FALSE]

DateTime(date, h, mi, s, us) ==
    [ok |-> TRUE, date |-> date, hour |-> h, minute |-> mi, second |-> s,
     microsecond |-> us]

\* datetime.fromisoformat(s.replace('Z', '+00:00')) on the timestamp strings
\* of the model (all UTC); any other string is not an ISO timestamp.
fromisoformat(s) ==
    CASE s = "2025-08-22T10:00:00Z" -> DateTime("2025-08-22", 10, 0, 0, 0)
      [] s = "2025-08-22T10:02:30.500000Z" ->
             DateTime("2025-08-22", 10, 2, 30, 500000)
      [] s = "2025-08-22T10:04:59Z" -> DateTime("2025-08-22", 10, 4, 59, 0)
      [] s = "2025-08-22T10:05:00Z" -> DateTime("2025-08-22", 10, 5, 0, 0)
      [] s = "2025-08-23T23:59:59Z" -> DateTime("2025-08-23", 23, 59, 59, 0)
      [] OTHER -> ValueError

\* dt.replace(minute=(dt.minute // 5) * 5, second=0, microsecond=0)
WindowOfTruncTo10(dt) ==
    [dt EXCEPT !.minute = (dt.minute \div 10) * 10, !.second = 0,
               !.microsecond = 0]

WindowOf(dt) ==
    [dt EXCEPT !.minute = (dt.minute \div 5) * 5, !.second = 0,
               !.microsecond = 0]

\* window.isoformat() of a window start
isoformat(w) ==
    CASE w = DateTime("2025-08-22", 10, 0, 0, 0) -> "2025-08-22T10:00:00+00:00"
      [] w = DateTime("2025-08-22", 10, 5, 0, 0) -> "2025-08-22T10:05:00+00:00"
      [] w = DateTime("2025-08-23", 23, 55, 0, 0) -> "2025-08-23T23:55:00+00:00"
      [] OTHER -> "?"

\* the timestamp of a record when it is a string that parses, else ValueError
ParsedTime(v) ==
    IF IsNonEmptyStr(v) THEN fromisoformat(Get(v).s) ELSE ValueError

-----------------------------------------------------------------------------
(* Alert records: one mapping shape for both raw sources; a key the record *)
(* does not carry is Missing.                                              *)

NoFields ==
    [level |-> Missing, resourceType |-> Missing, resourceGroup |-> Missing,
     resourceId |-> Missing, timestamp |-> Missing, correlationId |-> Missing,
     severity |-> Missing, name |-> Missing, alertState |-> Missing,
     targetResourceType |-> Missing, targetResourceGroup |-> Missing,
     targetResource |-> Missing, startDateTime |-> Missing]

SevLevels == {"Sev0", "Sev1", "Sev2", "Sev3", "Sev4"}

\* nested defaultdict: d[outer][inner] += n
AddNested(d, outer, inner, n) ==
    IF outer \in Keys(d)
    THEN [d EXCEPT ![Index(d, outer)].v = Add(@, inner, n)]
    ELSE Append(d, [k |-> outer, v |-> Add(<<>>, inner, n)])

CountNested(d, outer, inner) ==
    IF outer \in Keys(d) THEN Count(d[Index(d, outer)].v, inner) ELSE 0

\* the analysis containers of analyze_alerts
EmptyAnalysis(total) ==
    [total_alerts |-> total,
     severity_breakdown |-> <<>>,
     alert_state_breakdown |-> <<>>,
     alert_state_by_severity |-> <<>>,
     resource_type_breakdown |-> <<>>,
     resource_group_breakdown |-> <<>>,
     hourly_distribution |-> <<>>,
     daily_distribution |-> <<>>,
     top_alerting_resources |-> <<>>,
     top_alerts_by_severity |-> [s \in SevLevels |-> <<>>],
     alert_lifecycle_metrics |->
         [new_alerts |-> 0, acknowledged_alerts |-> 0, closed_alerts |-> 0],
     correlation_patterns |-> <<>>,
     tuning_recommendations |-> <<>>,
     alert_storms |-> <<>>]

\* resource_type_str: value or localizedValue or str(resource_type) for a
\* dict, str(resource_type) otherwise. The value and localizedValue of the
\* model's dicts are strings, None, lists or dicts.
ResourceTypeValue(v) ==
    IF v.t = "dict"
    THEN IF Truthy(Get(v.value)) THEN Get(v.value)
         ELSE IF Truthy(Get(v.localizedValue)) THEN Get(v.localizedValue)
         ELSE Str(PyStr(v))
    ELSE Str(PyStr(v))

ResourceTypeStr(v) == ResourceTypeValue(v).s

\* hash(x) succeeds: a list or a dict as a Counter key is a TypeError
Hashable(x) == x.t \notin {"list", "dict"}

\* analyze_alerts left by an exception raised at the line
TypeError(line) == [status |-> "TypeError", line |-> line]

Aborted(a) == "status" \in DOMAIN a

\* Counter[resource_type_str] += 1 raises for an unhashable key
ResourceTypeRaises(v) ==
    Truthy(Get(v)) /\ ~Hashable(ResourceTypeValue(Get(v)))

\* hourly_distribution[hour] += 1; daily_distribution[day] += 1 when the
\* string parses, nothing otherwise (the except clause)
TimeDistributionUnparsedAtMidnight(a, v) ==
    LET dt == ParsedTime(v) IN
    IF dt.ok
    THEN [a EXCEPT !.hourly_distribution = Inc(@, dt.hour),
                   !.daily_distribution = Inc(@, dt.date)]
    ELSE [a EXCEPT !.hourly_distribution = Inc(@, 0),
                   !.daily_distribution = Inc(@, "1970-01-01")]

TimeDistribution(a, v) ==
    LET dt == ParsedTime(v) IN
    IF dt.ok
    THEN [a EXCEPT !.hourly_distribution = Inc(@, dt.hour),
                   !.daily_distribution = Inc(@, dt.date)]
    ELSE a

\* one iteration of `for alert in activity_alerts`
ActivityStep(a, alert) ==
    IF Aborted(a) THEN a
    ELSE IF ResourceTypeRaises(alert.resourceType) THEN TypeError(67)
    ELSE
    LET a1 == IF IsNonEmptyStr(alert.level)
              THEN [a EXCEPT !.severity_breakdown = Inc(@, Get(alert.level).s)]
              ELSE a
        a2 == IF Truthy(Get(alert.resourceType))
              THEN [a1 EXCEPT !.resource_type_breakdown =
                                  Inc(@, ResourceTypeStr(Get(alert.resourceType)))]
              ELSE a1
        a3 == IF IsNonEmptyStr(alert.resourceGroup)
              THEN [a2 EXCEPT !.resource_group_breakdown =
                                  Inc(@, Get(alert.resourceGroup).s)]
              ELSE a2
        a4 == IF IsNonEmptyStr(alert.resourceId)
              THEN [a3 EXCEPT !.top_alerting_resources =
                                  Inc(@, Get(alert.resourceId).s)]
              ELSE a3
    IN TimeDistribution(a4, alert.timestamp)

\* the lifecycle counters (if / elif / elif on alert_state)
LifecycleCaseInsensitive(m, state) ==
    CASE state \in {"New", "new"} -> [m EXCEPT !.new_alerts = @ + 1]
      [] state \in {"Acknowledged", "acknowledged"} ->
             [m EXCEPT !.acknowledged_alerts = @ + 1]
      [] state \in {"Closed", "closed"} -> [m EXCEPT !.closed_alerts = @ + 1]
      [] OTHER -> m

Lifecycle(m, state) ==
    CASE state = "New" -> [m EXCEPT !.new_alerts = @ + 1]
      [] state = "Acknowledged" -> [m EXCEPT !.acknowledged_alerts = @ + 1]
      [] state = "Closed" -> [m EXCEPT !.closed_alerts = @ + 1]
      [] OTHER -> m

\* alert.get('name', 'Unknown Alert')
AlertNameWithoutDefault(alert) == alert.name

AlertName(alert) ==
    IF alert.name.t = "missing" THEN Str("Unknown Alert") ELSE alert.name

\* the time distribution of a history record, from its startDateTime
HistoryTimeDistributionSkipped(a, v) == a

HistoryTimeDistribution(a, v) == TimeDistribution(a, v)

\* one iteration of `for alert in alert_history`
HistoryStep(a, alert) ==
    IF Aborted(a) THEN a
    ELSE IF ResourceTypeRaises(alert.targetResourceType) THEN TypeError(127)
    ELSE
    LET hasSev == IsNonEmptyStr(alert.severity)
        sev == Get(alert.severity).s
        a1 == IF hasSev
              THEN [a EXCEPT !.severity_breakdown = Inc(@, sev)]
              ELSE a
        a2 == IF hasSev /\ AlertName(alert).t = "str" /\ sev \in SevLevels
              THEN [a1 EXCEPT !.top_alerts_by_severity[sev] =
                                  Inc(@, AlertName(alert).s)]
              ELSE a1
        hasState == IsNonEmptyStr(alert.alertState)
        st == Get(alert.alertState).s
        a3 == IF hasState
              THEN [a2 EXCEPT !.alert_state_breakdown = Inc(@, st),
                              !.alert_state_by_severity =
                                  IF hasSev THEN AddNested(@, sev, st, 1) ELSE @,
                              !.alert_lifecycle_metrics = Lifecycle(@, st)]
              ELSE a2
        a4 == IF Truthy(Get(alert.targetResourceType))
              THEN [a3 EXCEPT !.resource_type_breakdown =
                                  Inc(@, ResourceTypeStr(Get(alert.targetResourceType)))]
              ELSE a3
        a5 == IF IsNonEmptyStr(alert.targetResourceGroup)
              THEN [a4 EXCEPT !.resource_group_breakdown =
                                  Inc(@, Get(alert.targetResourceGroup).s)]
              ELSE a4
        a6 == IF IsNonEmptyStr(alert.targetResource)
              THEN [a5 EXCEPT !.top_alerting_resources =
                                  Inc(@, Get(alert.targetResource).s)]
              ELSE a5
    IN HistoryTimeDistribution(a6, alert.startDateTime)

\* `for alert in activity_alerts`, iterations lo..hi in order, starting from
\* a. The range is split in two and the first half is evaluated (left = left)
\* before the second half starts, so that the evaluation depth grows with
\* the logarithm of the number of records.
RECURSIVE ActivityLoop(_, _, _, _)
ActivityLoop(a, alerts, lo, hi) ==
    IF lo > hi THEN a
    ELSE IF lo = hi THEN ActivityStep(a, alerts[lo])
    ELSE LET left == ActivityLoop(a, alerts, lo, (lo + hi) \div 2)
         IN IF left = left
            THEN ActivityLoop(left, alerts, (lo + hi) \div 2 + 1, hi)
            ELSE left

\* `for alert in alert_history`, iterations lo..hi in order, starting from a
RECURSIVE HistoryLoop(_, _, _, _)
HistoryLoop(a, alerts, lo, hi) ==
    IF lo > hi THEN a
    ELSE IF lo = hi THEN HistoryStep(a, alerts[lo])
    ELSE LET left == HistoryLoop(a, alerts, lo, (lo + hi) \div 2)
         IN IF left = left
            THEN HistoryLoop(left, alerts, (lo + hi) \div 2 + 1, hi)
            ELSE left

\* analysis after the two breakdown loops
TotalAlertsActivityOnly(activity, history) == Len(activity)

TotalAlerts(activity, history) == Len(activity) + Len(history)

Breakdowns(activity, history) ==
    HistoryLoop(ActivityLoop(EmptyAnalysis(TotalAlerts(activity, history)),
                             activity, 1, Len(activity)),
                history, 1, Len(history))

-----------------------------------------------------------------------------
(* IEEE-754 binary64 arithmetic for `count * 0.7`: naturals too large for  *)
(* machine integers are bit sequences, least significant bit first.        *)

\* the 53-bit significand of the double nearest 0.7:
\* 0.7 is stored as 0x16666666666666 * 2^-53 (6305039478318694 / 2^53)
Significand07 ==
    <<0,1,1,0, 0,1,1,0, 0,1,1,0, 0,1,1,0, 0,1,1,0, 0,1,1,0, 0,1,1,0,
      0,1,1,0, 0,1,1,0, 0,1,1,0, 0,1,1,0, 0,1,1,0, 0,1,1,0, 1>>

DoublePrecision == 53

RECURSIVE NatBits(_)
NatBits(n) == IF n = 0 THEN <<>> ELSE <<n % 2>> \o NatBits(n \div 2)

\* bits * n + carry
RECURSIVE BitsTimes(_, _, _)
BitsTimes(bits, n, carry) ==
    IF bits = <<>> THEN NatBits(carry)
    ELSE LET v == Head(bits) * n + carry
         IN <<v % 2>> \o BitsTimes(Tail(bits), n, v \div 2)

\* bits + 1
RECURSIVE BitsSucc(_)
BitsSucc(bits) ==
    IF bits = <<>> THEN <<1>>
    ELSE IF Head(bits) = 0 THEN <<1>> \o Tail(bits)
    ELSE <<0>> \o BitsSucc(Tail(bits))

\* without leading (most significant) zeros
RECURSIVE Trim(_)
Trim(bits) ==
    IF bits # <<>> /\ bits[Len(bits)] = 0
    THEN Trim(SubSeq(bits, 1, Len(bits) - 1))
    ELSE bits

\* bits * 2^k
ShiftLeft(bits, k) == [i \in 1..k |-> 0] \o bits

\* a > b, both trimmed
RECURSIVE BitsGreater(_, _)
BitsGreater(a, b) ==
    IF Len(a) # Len(b) THEN Len(a) > Len(b)
    ELSE IF a = <<>> THEN FALSE
    ELSE IF a[Len(a)] # b[Len(b)] THEN a[Len(a)] > b[Len(b)]
    ELSE BitsGreater(SubSeq(a, 1, Len(a) - 1), SubSeq(b, 1, Len(b) - 1))

\* The double count * 0.7, as [sig, exp] meaning sig * 2^exp: the exact
\* product count * Significand07 * 2^-53 rounded to 53 significant bits,
\* ties to even.
FloatTimes07(count) ==
    LET exact == Trim(BitsTimes(Significand07, count, 0))
        r == Len(exact) - DoublePrecision
    IN IF r <= 0 THEN [sig |-> exact, exp |-> 0 - DoublePrecision]
       ELSE LET q == SubSeq(exact, r + 1, Len(exact))
                guard == exact[r]
                sticky == \E i \in 1..(r - 1) : exact[i] = 1
                up == guard = 1 /\ (sticky \/ q[1] = 1)
            IN [sig |-> IF up THEN BitsSucc(q) ELSE q,
                exp |-> r - DoublePrecision]

\* n > f for an integer n >= 0 and a double f = sig * 2^exp with exp <= 0
IntGreaterThanFloat(n, f) ==
    BitsGreater(ShiftLeft(NatBits(n), 0 - f.exp), Trim(f.sig))

-----------------------------------------------------------------------------
(* Storm, tuning and correlation detection *)

StormThreshold == 10
CorrelationThreshold == 2
SampleSize == 5
TopResources == 20
MinTuningCount == 5

\* d[key].append(alert) on a defaultdict(list)
AppendTo(d, key, alert) ==
    IF key \in Keys(d)
    THEN [d EXCEPT ![Index(d, key)].v = Append(@, alert)]
    ELSE Append(d, [k |-> key, v |-> <<alert>>])

\* one iteration of the time_windows loop: the alert joins the list of its
\* five-minute window when its timestamp parses
TimeWindowStep(d, alert) ==
    LET dt == ParsedTime(alert.timestamp)
    IN IF dt.ok THEN AppendTo(d, WindowOf(dt), alert) ELSE d

\* time_windows after iterations lo..hi of `for alert in activity_alerts`,
\* starting from d: window start -> the alerts falling in it
RECURSIVE TimeWindowsLoop(_, _, _, _)
TimeWindowsLoop(d, alerts, lo, hi) ==
    IF lo > hi THEN d
    ELSE IF lo = hi THEN TimeWindowStep(d, alerts[lo])
    ELSE LET left == TimeWindowsLoop(d, alerts, lo, (lo + hi) \div 2)
         IN IF left = left
            THEN TimeWindowsLoop(left, alerts, (lo + hi) \div 2 + 1, hi)
            ELSE left

TimeWindows(alerts) == TimeWindowsLoop(<<>>, alerts, 1, Len(alerts))

\* one iteration of the correlation_groups loop
CorrelationGroupStep(d, alert) ==
    IF IsNonEmptyStr(alert.correlationId)
    THEN AppendTo(d, Get(alert.correlationId).s, alert)
    ELSE d

\* correlation_groups after iterations lo..hi, starting from d: correlation
\* id -> the alerts carrying it
RECURSIVE CorrelationGroupsLoop(_, _, _, _)
CorrelationGroupsLoop(d, alerts, lo, hi) ==
    IF lo > hi THEN d
    ELSE IF lo = hi THEN CorrelationGroupStep(d, alerts[lo])
    ELSE LET left == CorrelationGroupsLoop(d, alerts, lo, (lo + hi) \div 2)
         IN IF left = left
            THEN CorrelationGroupsLoop(left, alerts, (lo + hi) \div 2 + 1, hi)
            ELSE left

CorrelationGroups(alerts) == CorrelationGroupsLoop(<<>>, alerts, 1, Len(alerts))

\* set(resources): the string resourceIds of the alerts of a group
ResourceSet(alerts) ==
    {Get(alerts[i].resourceId).s :
        i \in {j \in DOMAIN alerts : IsNonEmptyStr(alerts[j].resourceId)}}

\* list(set(resources))[:5]: a set of strings iterates in an order fixed by
\* the process's string hashing, so any order of the elements can come out
SampleListsUntruncated(S) ==
    LET n == Cardinality(S)
    IN {q \in [1..n -> S] : \A i, j \in 1..n : i # j => q[i] # q[j]}

SampleLists(S) ==
    LET n == Min(SampleSize, Cardinality(S))
    IN {q \in [1..n -> S] : \A i, j \in 1..n : i # j => q[i] # q[j]}

IsStormAtLeastThreshold(alerts) == Len(alerts) >= StormThreshold

IsStorm(alerts) == Len(alerts) > StormThreshold

IsCorrelatedAtLeastThreshold(alerts) == Len(alerts) >= CorrelationThreshold

IsCorrelated(alerts) == Len(alerts) > CorrelationThreshold

\* `for window, alerts in time_windows.items(): if len(alerts) > 10`
StormWindows(d) == LET T(e) == IsStorm(e.v) IN SelectSeq(d, T)

\* `for corr_id, alerts in correlation_groups.items(): if len(alerts) > 2`
CorrelatedGroups(d) == LET T(e) == IsCorrelated(e.v) IN SelectSeq(d, T)

\* the possible values of analysis['alert_storms']
AlertStorms(activity) ==
    LET f == StormWindows(TimeWindows(activity))
        lists == UNION {SampleLists(ResourceSet(f[i].v)) : i \in DOMAIN f}
    IN {[i \in DOMAIN f |->
            [time |-> isoformat(f[i].k), count |-> Len(f[i].v),
             resources |-> pick[i]]] :
        pick \in {p \in [DOMAIN f -> lists] :
                     \A i \in DOMAIN f : p[i] \in SampleLists(ResourceSet(f[i].v))}}

\* the possible values of analysis['correlation_patterns']
CorrelationPatterns(activity) ==
    LET f == CorrelatedGroups(CorrelationGroups(activity))
        lists == UNION {SampleLists(ResourceSet(f[i].v)) : i \in DOMAIN f}
    IN {[i \in DOMAIN f |->
            [correlation_id |-> f[i].k, alert_count |-> Len(f[i].v),
             resources |-> pick[i], time_span |-> "Multiple related alerts"]] :
        pick \in {p \in [DOMAIN f -> lists] :
                     \A i \in DOMAIN f : p[i] \in SampleLists(ResourceSet(f[i].v))}}

\* low_sev_count: the activity alerts of the resource with a low level
LowSevCount(activity, resource) ==
    Cardinality({i \in DOMAIN activity :
        /\ IsStr(activity[i].resourceId)
        /\ Get(activity[i].resourceId).s = resource
        /\ IsStr(activity[i].level)
        /\ Get(activity[i].level).s \in {"Warning", "Informational"}})

\* low_sev_count > count * 0.7 and count > 5
NeedsTuning(low, count) ==
    IntGreaterThanFloat(low, FloatTimes07(count)) /\ count > MinTuningCount

RECURSIVE Recommend(_, _)
Recommend(top, activity) ==
    IF top = <<>> THEN <<>>
    ELSE (IF NeedsTuning(LowSevCount(activity, Head(top).k), Head(top).n)
          THEN <<[resource |-> Head(top).k, alert_count |-> Head(top).n,
                  recommendation |->
                    "Consider adjusting thresholds or reducing alert sensitivity"]>>
          ELSE <<>>) \o Recommend(Tail(top), activity)

\* analysis['tuning_recommendations']
TuningRecommendations(a, activity) ==
    Recommend(MostCommon(a.top_alerting_resources, TopResources), activity)

\* the records grouped by correlation id: `for alert in activity_alerts`
CorrelationSourceWithHistory(activity, history) == activity \o history

CorrelationSource(activity, history) == activity

\* the records put in time windows: `for alert in activity_alerts`
StormSourceWithHistory(activity, history) == activity \o history

StormSource(activity, history) == activity

\* the possible outcomes of analyze_alerts: the returned analysis, or the
\* exception that ended it
AnalyzeAlerts(activity, history) ==
    LET a == Breakdowns(activity, history)
        tuning == TuningRecommendations(a, activity)
    IN IF Aborted(a) THEN {a}
       ELSE {[a EXCEPT !.alert_storms = storms,
                       !.tuning_recommendations = tuning,
                       !.correlation_patterns = patterns] :
             storms \in AlertStorms(StormSource(activity, history)),
             patterns \in CorrelationPatterns(CorrelationSource(activity, history))}

-----------------------------------------------------------------------------
(* generate_report: the figures it computes, in the order it computes them *)

\* a / b as the exact quotient num / den; den = 0 is a ZeroDivisionError
PyDiv(a, b) == [num |-> a, den |-> b]

Raised(q) == q.den = 0

Zero == [num |-> 0, den |-> 1]

IsZero(q) == q.den # 0 /\ q.num = 0

\* q > n
QuotientGreater(q, n) ==
    IF q.den > 0 THEN q.num > n * q.den ELSE q.num < n * q.den

\* (count / total * 100) if total > 0 else 0
Percentage(count, total) ==
    IF total > 0 THEN PyDiv(count * 100, total) ELSE Zero

\* the percentage column of a breakdown, in most_common() order
Percentages(breakdown, total) ==
    LET c == SortedByCount(breakdown)
    IN [i \in DOMAIN c |-> [k |-> c[i].k, n |-> c[i].n,
                             percentage |-> Percentage(c[i].n, total)]]

\* the rate lines of the lifecycle section: appended only `if new_alerts > 0`
Rate(part, new_alerts) ==
    IF new_alerts > 0
    THEN [shown |-> TRUE, rate |-> PyDiv(part * 100, new_alerts)]
    ELSE [shown |-> FALSE]

\* max(d.values(), default=1)
RECURSIVE MaxSeq(_)
MaxSeq(s) == IF Len(s) = 1 THEN s[1] ELSE Max(Head(s), MaxSeq(Tail(s)))

MaxValue(c) == IF c = <<>> THEN 1 ELSE MaxSeq([i \in DOMAIN c |-> c[i].n])

\* min(50, int(count * 50 / max(values, default=1))); -1 marks a
\* ZeroDivisionError
Bar(count, c) ==
    IF MaxValue(c) = 0 THEN 0 - 1
    ELSE Min(50, (count * 50) \div MaxValue(c))

Hours == 0..23

\* (Warning + Informational) / max(total_alerts, 1) * 100
LowSevPercentage(a) ==
    PyDiv((Count(a.severity_breakdown, "Warning")
             + Count(a.severity_breakdown, "Informational")) * 100,
          Max(a.total_alerts, 1))

\* the records analyze_alerts(days_back) reads from a file: all of them
LoadedRecordsFirstDays(alerts, days) ==
    SubSeq(alerts, 1, Min(Len(alerts), Max(days, 0)))

LoadedRecords(alerts, days) == alerts

\* analysis['total_alerts'] / days_back > 100
HighVolume == 100

\* total_alerts / days_back
AveragePerDay(a, days) == PyDiv(a.total_alerts, days)

\* ord(c) for the characters of a day string
Ord(c) ==
    CASE c = "-" -> 45
      [] c = "0" -> 48 [] c = "1" -> 49 [] c = "2" -> 50 [] c = "3" -> 51
      [] c = "4" -> 52 [] c = "5" -> 53 [] c = "6" -> 54 [] c = "7" -> 55
      [] c = "8" -> 56 [] c = "9" -> 57

\* a < b on str: the first differing character decides, a proper prefix
\* comes first
RECURSIVE StrLess(_, _)
StrLess(a, b) ==
    IF b = "" THEN FALSE
    ELSE IF a = "" THEN TRUE
    ELSE LET x == Ord(SubSeq(a, 1, 1))
             y == Ord(SubSeq(b, 1, 1))
         IN IF x # y THEN x < y
            ELSE StrLess(SubSeq(a, 2, Len(a)), SubSeq(b, 2, Len(b)))

\* sorted(analysis['daily_distribution'].items()): by day, the keys of a
\* dict being distinct
SortedDays(c) ==
    [p \in DOMAIN c |->
        c[CHOOSE i \in DOMAIN c :
            1 + Cardinality({j \in DOMAIN c : StrLess(c[j].k, c[i].k)}) = p]]

\* sorted_days[-7:]
TrendDays == 7

LastDays(c) == SubSeq(c, Max(1, Len(c) - TrendDays + 1), Len(c))

\* what generate_report(analysis, days_back) computes; the first division
\* by zero ends it with the exception
GenerateReport(a, days) ==
    LET average == AveragePerDay(a, days)
        sev == Percentages(a.severity_breakdown, a.total_alerts)
        st == Percentages(a.alert_state_breakdown, a.total_alerts)
        lc == a.alert_lifecycle_metrics
        ack == Rate(lc.acknowledged_alerts, lc.new_alerts)
        close == Rate(lc.closed_alerts, lc.new_alerts)
        hourly == [h \in Hours |->
                      Bar(Count(a.hourly_distribution, h), a.hourly_distribution)]
        days7 == LastDays(SortedDays(a.daily_distribution))
        daily == [i \in DOMAIN days7 |->
                      [k |-> days7[i].k,
                       bar |-> Bar(days7[i].n, a.daily_distribution)]]
        low == LowSevPercentage(a)
        Abort(line) == [status |-> "ZeroDivisionError", line |-> line]
    IN CASE Raised(average) -> Abort(260)
         [] \E i \in DOMAIN sev : Raised(sev[i].percentage) -> Abort(267)
         [] \E i \in DOMAIN st : Raised(st[i].percentage) -> Abort(275)
         [] ack.shown /\ Raised(ack.rate) -> Abort(287)
         [] close.shown /\ Raised(close.rate) -> Abort(290)
         [] \E h \in Hours : hourly[h] < 0 -> Abort(354)
         [] \E i \in DOMAIN daily : daily[i].bar < 0 -> Abort(363)
         [] Raised(low) -> Abort(380)
         [] OTHER ->
              [status |-> "ok",
               days_back |-> days,
               average |-> average,
               severity |-> sev,
               state |-> st,
               ack_rate |-> ack,
               close_rate |-> close,
               hourly_bars |-> hourly,
               daily_bars |-> daily,
               high_volume |-> QuotientGreater(average, HighVolume),
               low_sev_percentage |-> low,
               low_sev_warning |-> QuotientGreater(low, 70),
               many_patterns |-> Len(a.correlation_patterns) > 5]

-----------------------------------------------------------------------------
(* analysis_data.json and the tenant rollup *)

DocKeys ==
    {"total_alerts", "severity_breakdown", "alert_state_breakdown",
     "alert_state_by_severity", "alert_lifecycle_metrics",
     "resource_type_breakdown", "resource_group_breakdown",
     "top_alerting_resources", "top_alerts_by_severity",
     "hourly_distribution", "daily_distribution", "correlation_patterns",
     "tuning_recommendations", "alert_storms"}

\* the JSON object {}: what load_json_file returns for an unreadable file
EmptyDoc ==
    [present |-> {},
     total_alerts |-> 0,
     severity_breakdown |-> <<>>,
     alert_state_breakdown |-> <<>>,
     alert_state_by_severity |-> <<>>,
     alert_lifecycle_metrics |->
         [new_alerts |-> 0, acknowledged_alerts |-> 0, closed_alerts |-> 0],
     resource_type_breakdown |-> <<>>,
     resource_group_breakdown |-> <<>>,
     top_alerting_resources |-> <<>>,
     top_alerts_by_severity |-> <<>>,
     hourly_distribution |-> <<>>,
     daily_distribution |-> <<>>,
     correlation_patterns |-> <<>>,
     tuning_recommendations |-> <<>>,
     alert_storms |-> <<>>]

\* top_alerts_by_severity_json: the severities with alerts, ten names each
TopAlertsJson(top) ==
    LET order == <<"Sev0", "Sev1", "Sev2", "Sev3", "Sev4">>
        all == [i \in 1..5 |-> [k |-> order[i], v |-> MostCommon(top[order[i]], 10)]]
        NonEmpty(e) == e.v # <<>>
    IN SelectSeq(all, NonEmpty)

\* json.dump writes the int keys of a dict as strings
JsonKeys(c) == [i \in DOMAIN c |-> [k |-> ToString(c[i].k), n |-> c[i].n]]

\* analysis_json, the object __main__ dumps to analysis_data.json
AnalysisJson(a) ==
    [present |-> DocKeys,
     total_alerts |-> a.total_alerts,
     severity_breakdown |-> a.severity_breakdown,
     alert_state_breakdown |-> a.alert_state_breakdown,
     alert_state_by_severity |-> a.alert_state_by_severity,
     alert_lifecycle_metrics |-> a.alert_lifecycle_metrics,
     resource_type_breakdown |-> a.resource_type_breakdown,
     resource_group_breakdown |-> a.resource_group_breakdown,
     top_alerting_resources |-> MostCommon(a.top_alerting_resources, TopResources),
     top_alerts_by_severity |-> TopAlertsJson(a.top_alerts_by_severity),
     hourly_distribution |-> JsonKeys(a.hourly_distribution),
     daily_distribution |-> a.daily_distribution,
     correlation_patterns |-> a.correlation_patterns,
     tuning_recommendations |-> a.tuning_recommendations,
     alert_storms |-> a.alert_storms]

\* sub_data.get(key, default)
DocGet(doc, key, default) == IF key \in doc.present THEN doc[key] ELSE default

\* the initial consolidated dict
EmptyConsolidated ==
    [total_alerts |-> 0,
     severity_breakdown |-> <<>>,
     alert_state_breakdown |-> <<>>,
     alert_state_by_severity |-> <<>>,
     alert_lifecycle_metrics |->
         [new_alerts |-> 0, acknowledged_alerts |-> 0, closed_alerts |-> 0],
     top_alerts_by_severity |-> [s \in SevLevels |-> <<>>],
     resource_type_breakdown |-> <<>>,
     resource_group_breakdown |-> <<>>,
     top_alerting_resources |-> <<>>,
     hourly_distribution |-> <<>>,
     daily_distribution |-> <<>>,
     correlation_patterns |-> <<>>,
     tuning_recommendations |-> <<>>,
     alert_storms |-> <<>>,
     subscription_summary |-> <<>>]

\* `for key, count in items: counter[key] += count`
RECURSIVE MergeCountsOverwrite(_, _)
MergeCountsOverwrite(c, items) ==
    IF items = <<>> THEN c
    ELSE MergeCountsOverwrite(AddOverwrite(c, Head(items).k, Head(items).n),
                              Tail(items))

RECURSIVE MergeCounts(_, _)
MergeCounts(c, items) ==
    IF items = <<>> THEN c
    ELSE MergeCounts(Add(c, Head(items).k, Head(items).n), Tail(items))

\* `for state, count in states.items(): d[severity][state] += count`
RECURSIVE MergeInner(_, _, _)
MergeInner(d, outer, items) ==
    IF items = <<>> THEN d
    ELSE MergeInner(AddNested(d, outer, Head(items).k, Head(items).n),
                    outer, Tail(items))

\* `for severity, states in sub_data.get('alert_state_by_severity', {}).items()`
RECURSIVE MergeNested(_, _)
MergeNested(d, items) ==
    IF items = <<>> THEN d
    ELSE MergeNested(MergeInner(d, Head(items).k, Head(items).v), Tail(items))

\* `for severity in [Sev0..Sev4]: if severity in sub top_alerts_by_severity`
MergeTopAlertsLastWins(top, subTop) ==
    [s \in SevLevels |->
        IF s \in Keys(subTop) THEN subTop[Index(subTop, s)].v ELSE top[s]]

MergeTopAlerts(top, subTop) ==
    [s \in SevLevels |->
        IF s \in Keys(subTop)
        THEN MergeCounts(top[s], subTop[Index(subTop, s)].v)
        ELSE top[s]]

\* sub_data.get(...) on a JSON value that is not an object
AttributeError(line) == [status |-> "AttributeError", line |-> line]

\* the else branch of `if os.path.exists(analysis_file)`
NoFileSkipped(c, dir) == c

NoFileStep(c, dir) ==
    [c EXCEPT
       !.subscription_summary =
           Append(@, [name |-> dir.name, id |-> dir.id,
                      directory |-> dir.directory,
                      total_alerts |-> 0,
                      severity_breakdown |-> <<>>,
                      has_data |-> FALSE])]

\* one iteration of `for sub_dir in subscription_dirs`; an exception ends
\* the loop
SubscriptionStep(c, dir) ==
    IF Aborted(c) THEN c
    ELSE IF dir.file = "absent" THEN NoFileStep(c, dir)
    ELSE IF dir.file = "not_object" THEN AttributeError(77)
    ELSE LET sub_data == IF dir.file = "object" THEN dir.data ELSE EmptyDoc
             sub_alerts == DocGet(sub_data, "total_alerts", 0)
             lifecycle == DocGet(sub_data, "alert_lifecycle_metrics",
                                 EmptyDoc.alert_lifecycle_metrics)
         IN [c EXCEPT
               !.total_alerts = @ + sub_alerts,
               !.severity_breakdown =
                   MergeCounts(@, DocGet(sub_data, "severity_breakdown", <<>>)),
               !.alert_state_breakdown =
                   MergeCounts(@, DocGet(sub_data, "alert_state_breakdown", <<>>)),
               !.alert_state_by_severity =
                   MergeNested(@, DocGet(sub_data, "alert_state_by_severity", <<>>)),
               !.alert_lifecycle_metrics =
                   [new_alerts |-> @.new_alerts + lifecycle.new_alerts,
                    acknowledged_alerts |->
                        @.acknowledged_alerts + lifecycle.acknowledged_alerts,
                    closed_alerts |-> @.closed_alerts + lifecycle.closed_alerts],
               !.top_alerts_by_severity =
                   MergeTopAlerts(@, DocGet(sub_data, "top_alerts_by_severity", <<>>)),
               !.resource_type_breakdown =
                   MergeCounts(@, DocGet(sub_data, "resource_type_breakdown", <<>>)),
               !.resource_group_breakdown =
                   MergeCounts(@, DocGet(sub_data, "resource_group_breakdown", <<>>)),
               !.top_alerting_resources =
                   MergeCounts(@, DocGet(sub_data, "top_alerting_resources", <<>>)),
               !.subscription_summary =
                   Append(@, [name |-> dir.name, id |-> dir.id,
                              directory |-> dir.directory,
                              total_alerts |-> sub_alerts,
                              severity_breakdown |->
                                  DocGet(sub_data, "severity_breakdown", <<>>),
                              has_data |-> sub_alerts > 0])]

\* fnmatch of a name against 'subscription_*'
MatchesEverything(name) == TRUE

Matches(name) ==
    Len(name) >= Len("subscription_")
        /\ SubSeq(name, 1, Len("subscription_")) = "subscription_"

\* glob.glob('subscription_*') over the entries of the working directory
Glob(entries) ==
    LET Selected(e) == Matches(e.directory) IN SelectSeq(entries, Selected)

\* the entry of a file main() wrote: no analysis_data.json below it
OutputFile(name) ==
    [directory |-> name, name |-> "Unknown", id |-> "Unknown",
     file |-> "absent", data |-> EmptyDoc]

\* aggregate_subscription_data() over the directories in glob order
RECURSIVE AggregateLoop(_, _)
AggregateLoop(c, dirs) ==
    IF dirs = <<>> THEN c
    ELSE AggregateLoop(SubscriptionStep(c, Head(dirs)), Tail(dirs))

\* the detail lists of the documents of dirs, one after the other
RECURSIVE Details(_, _)
Details(dirs, key) ==
    IF dirs = <<>> THEN <<>>
    ELSE (IF Head(dirs).file = "object"
          THEN DocGet(Head(dirs).data, key, <<>>) ELSE <<>>)
         \o Details(Tail(dirs), key)

AggregateSubscriptionDataWithDetails(dirs) ==
    [AggregateLoop(EmptyConsolidated, dirs) EXCEPT
        !.alert_storms = Details(dirs, "alert_storms"),
        !.correlation_patterns = Details(dirs, "correlation_patterns"),
        !.tuning_recommendations = Details(dirs, "tuning_recommendations")]

AggregateSubscriptionData(dirs) == AggregateLoop(EmptyConsolidated, dirs)

\* (count / total_alerts * 100) if total_alerts > 0 else 0, in the dashboard
DashboardPercentageUnguarded(count, total) == PyDiv(count * 100, total)

DashboardPercentage(count, total) ==
    IF total > 0 THEN PyDiv(count * 100, total) ELSE Zero

DashboardRows(breakdown, total) ==
    LET c == SortedByCount(breakdown)
    IN [i \in DOMAIN c |-> [k |-> c[i].k, n |-> c[i].n,
                             percentage |-> DashboardPercentage(c[i].n, total)]]

\* the percentage tables of create_consolidated_dashboard(data)
CreateConsolidatedDashboard(data) ==
    LET sev == DashboardRows(data.severity_breakdown, data.total_alerts)
        st == DashboardRows(data.alert_state_breakdown, data.total_alerts)
    IN IF \E i \in DOMAIN sev : Raised(sev[i].percentage)
       THEN [status |-> "ZeroDivisionError", line |-> 308]
       ELSE IF \E i \in DOMAIN st : Raised(st[i].percentage)
       THEN [status |-> "ZeroDivisionError", line |-> 319]
       ELSE [status |-> "ok", severity |-> sev, state |-> st]

-----------------------------------------------------------------------------
(* Inputs *)

MaxActivity == 2
MaxHistory == 3
MaxRun == 11
MaxSubscriptions == 3

DaysBackValues == {0, 1, 7}

Activity(level, resourceId, timestamp, correlationId) ==
    [NoFields EXCEPT !.level = level, !.resourceId = resourceId,
                     !.timestamp = timestamp, !.correlationId = correlationId,
                     !.resourceType = Str("Microsoft.Compute/virtualMachines"),
                     !.resourceGroup = Str("rg-prod")]

History(severity, name, alertState, targetResource) ==
    [NoFields EXCEPT !.severity = severity, !.name = name,
                     !.alertState = alertState,
                     !.targetResource = targetResource,
                     !.targetResourceType = Dict(Str("Microsoft.Sql/servers"), Missing),
                     !.targetResourceGroup = Str("rg-prod"),
                     !.startDateTime = Str("2025-08-22T10:05:00Z"),
                     !.timestamp = Str("2025-08-22T10:05:00Z"),
                     !.correlationId = Str("corr-1")]

\* records of varied shape: fields present, null, empty, not strings, absent
ActivityShapes ==
    {Activity(Str("Warning"), Str("resourceA"), Str("2025-08-22T10:00:00Z"),
              Str("corr-1")),
     Activity(Str("Error"), Str("resourceB"), Str("not-a-date"), None),
     [NoFields EXCEPT !.level = Num(5), !.resourceType = Str(""),
                      !.resourceId = Str(""), !.timestamp = Num(5),
                      !.correlationId = Str("corr-1")],
     NoFields}

HistoryShapes ==
    {History(Str("Sev1"), Str("HighCPU"), Str("New"), Str("resourceA")),
     History(Str("Critical"), Missing, Str("Acknowledged"), Str("resourceB")),
     [History(Str("Sev2"), None, Str("Closed"), None)
        EXCEPT !.startDateTime = Str("not-a-date")]}

\* all lists over S of length at most n
SeqsUpTo(S, n) == UNION {[1..k -> S] : k \in 0..n}

\* n copies of a record
Run(r, n) == [i \in 1..n |-> r]

\* records that differ in time, resource and correlation id only
StormKinds ==
    {Activity(Str("Warning"), Str("resourceA"), Str("2025-08-22T10:00:00Z"),
              Str("corr-1")),
     Activity(Str("Warning"), Str("resourceA"), Str("2025-08-22T10:04:59Z"),
              Str("corr-1")),
     Activity(Str("Error"), Str("resourceB"),
              Str("2025-08-22T10:02:30.500000Z"), Str("corr-2")),
     Activity(Str("Error"), Str("resourceA"), Str("2025-08-22T10:05:00Z"),
              Missing),
     Activity(Str("Warning"), None, Str("2025-08-23T23:59:59Z"), Str("corr-2")),
     Activity(Str("Warning"), Str("resourceB"), Str("not-a-date"), Str("corr-1")),
     Activity(Str("Warning"), Str("resourceB"), Missing, Str(""))}

\* resource names
FillerNames ==
    <<"filler01", "filler02", "filler03", "filler04", "filler05", "filler06",
      "filler07", "filler08", "filler09", "filler10", "filler11", "filler12",
      "filler13", "filler14", "filler15", "filler16", "filler17", "filler18",
      "filler19", "filler20">>

\* MaxRun records that go round six resources, in one window or in one
\* correlation group
SixResources(timestamp, correlationId) ==
    [i \in 1..MaxRun |->
        Activity(Str("Warning"), Str(FillerNames[((i - 1) % (SampleSize + 1)) + 1]),
                 timestamp, correlationId)]

StormInputs ==
    {Run(k1, n1) \o Run(k2, n2) :
        k1 \in StormKinds, k2 \in StormKinds, n1 \in 0..MaxRun, n2 \in 0..MaxRun}
    \cup {SixResources(Str("2025-08-22T10:00:00Z"), Missing),
          SixResources(Missing, Str("corr-1"))}

\* records of one resource that differ in level only
TuningKinds ==
    {Activity(Str("Warning"), Str("resourceA"), Missing, Missing),
     Activity(Str("Informational"), Str("resourceA"), Missing, Missing),
     Activity(Str("Error"), Str("resourceA"), Missing, Missing),
     Activity(None, Str("resourceA"), Missing, Missing)}

TuningRunLengths == {0, 1, 4, 5, 6, 7, 27, 63}

\* c Warning alerts on each of the first n filler resources
RECURSIVE Filler(_, _)
Filler(n, c) ==
    IF n = 0 THEN <<>>
    ELSE Filler(n - 1, c)
           \o Run(Activity(Str("Warning"), Str(FillerNames[n]), Missing, Missing), c)

TuningInputs ==
    {Run(k1, n1) \o Run(k2, n2) :
        k1 \in TuningKinds, k2 \in TuningKinds,
        n1 \in TuningRunLengths, n2 \in TuningRunLengths}
    \cup
    {Filler(n, c) \o Run(k, 6) :
        n \in {19, 20}, c \in {6, 7}, k \in TuningKinds}

TuningHistory ==
    {Run(History(Str("Sev3"), Str("HighCPU"), Str("New"), Str("resourceA")), n) :
        n \in 0..1}

\* the runtime shapes of a resourceType / targetResourceType field
ResourceTypeShapes ==
    {Str("Microsoft.Compute/virtualMachines"),
     Dict(Str("Microsoft.Sql/servers"), Str("SQL server")),
     Dict(None, Str("SQL server")),
     Dict(None, None),
     Dict(Missing, Missing),
     Num(5), Bool(TRUE), List(<<"a">>), List(<<>>), None, Missing,
     Dict(List(<<"a">>), Missing),
     Dict(None, Dict(Str("x"), Missing))}

\* the runtime shapes of a timestamp that does not parse
BadTimestamps == {Str("not-a-date"), Str(""), Num(5), None, Missing}

GoodTimestamp == Str("2025-08-22T10:00:00Z")

\* an activity record with the given resourceType and timestamp; it also
\* carries an alertState, a key the activity loop never reads
FieldActivity(resourceType, timestamp) ==
    [Activity(Str("Warning"), Str("resourceA"), timestamp, Str("corr-1"))
        EXCEPT !.resourceType = resourceType, !.alertState = Str("New")]

FieldActivityShapes ==
    {FieldActivity(rt, GoodTimestamp) : rt \in ResourceTypeShapes}
    \cup {FieldActivity(Str("Microsoft.Compute/virtualMachines"), ts) :
              ts \in BadTimestamps}

\* a history record with the given targetResourceType and startDateTime
FieldHistory(targetResourceType, startDateTime) ==
    [History(Str("Sev1"), Str("HighCPU"), Str("New"), Str("resourceA"))
        EXCEPT !.targetResourceType = targetResourceType,
               !.startDateTime = startDateTime]

FieldHistoryLists ==
    {<<>>}
    \cup {<<FieldHistory(rt, GoodTimestamp)>> :
              rt \in {Num(5), List(<<"a">>), Dict(None, Str("SQL server")),
                      Dict(None, List(<<"a">>))}}
    \cup {<<FieldHistory(Str("Microsoft.Sql/servers"), Str("not-a-date"))>>}

\* history records that differ in severity, name, state and start time; all
\* carry a timestamp and a correlation id, keys the history loop never reads
StateHistoryShapes ==
    {History(Str("Sev1"), Str("HighCPU"), Str("New"), Str("resourceA")),
     History(Str("Sev1"), Missing, Str("Acknowledged"), Str("resourceA")),
     [History(Str("Sev0"), None, Str("Closed"), Str("resourceB"))
        EXCEPT !.startDateTime = Str("not-a-date")],
     History(Str("Critical"), Str("HighCPU"), Str("Resolved"), Str("resourceB")),
     [History(Missing, Str("HighCPU"), Str("new"), None)
        EXCEPT !.startDateTime = Missing],
     [History(Str("Sev4"), Str(""), None, Str("resourceA"))
        EXCEPT !.startDateTime = Str("2025-08-23T23:59:59Z"),
               !.timestamp = Str("2025-08-22T10:00:00Z")],
     [History(Str("Sev1"), Str("DiskFull"), Str("Closed"), Str("resourceA"))
        EXCEPT !.timestamp = Str("2025-08-22T10:00:00Z")]}

\* activity lists next to which the history varies: none, two and ten
\* records of one window and correlation id, eleven of them
StateActivityLists ==
    {Run(FieldActivity(Str("Microsoft.Compute/virtualMachines"), GoodTimestamp), n) :
        n \in {0, 2, MaxRun - 1, MaxRun}}

\* analysis_data.json files as the analyzer writes them
DocA ==
    AnalysisJson(CHOOSE a \in AnalyzeAlerts(
        <<Activity(Str("Warning"), Str("resourceA"), Str("2025-08-22T10:00:00Z"), None),
          Activity(Str("Warning"), Str("resourceA"), Str("2025-08-22T10:05:00Z"), None),
          Activity(Str("Error"), Str("resourceB"), Str("2025-08-22T10:05:00Z"), None)>>,
        <<History(Str("Sev1"), Str("HighCPU"), Str("New"), Str("resourceA")),
          History(Str("Sev2"), Str("DiskFull"), Str("Acknowledged"), Str("resourceB"))>>) :
        TRUE)

DocB ==
    AnalysisJson(CHOOSE a \in AnalyzeAlerts(
        <<Activity(Str("Error"), Str("resourceB"), Str("2025-08-23T23:59:59Z"), None)>>,
        <<History(Str("Sev1"), Str("HighCPU"), Str("Closed"), Str("resourceC")),
          History(Str("Sev1"), Str("HighCPU"), Str("New"), Str("resourceA")),
          History(Str("Sev1"), Str("LowMemory"), Str("New"), Str("resourceA"))>>) :
        TRUE)

\* the document of a subscription with a storm: eleven warnings of one
\* resource, window and correlation id
DocC ==
    AnalysisJson(CHOOSE a \in AnalyzeAlerts(
        Run(Activity(Str("Warning"), Str("resourceA"), Str("2025-08-22T10:00:00Z"),
                     Str("corr-1")), MaxRun),
        <<>>) : TRUE)

\* an object that carries breakdowns but no total_alerts
PartialDoc ==
    [EmptyDoc EXCEPT
        !.present = {"severity_breakdown", "alert_state_breakdown"},
        !.severity_breakdown = <<[k |-> "Warning", n |-> 2], [k |-> "Sev1", n |-> 1]>>,
        !.alert_state_breakdown = <<[k |-> "New", n |-> 1]>>]

\* a subscription_* directory: the identity read from subscription_info.txt
\* ("Unknown" without the label lines) and its analysis_data.json
SubscriptionDirs ==
    {[directory |-> "subscription_1", name |-> "Prod", id |-> "sub-1",
      file |-> "object", data |-> DocA],
     [directory |-> "subscription_2", name |-> "Training", id |-> "sub-2",
      file |-> "object", data |-> DocB],
     [directory |-> "subscription_3", name |-> "Unknown", id |-> "Unknown",
      file |-> "absent", data |-> EmptyDoc],
     [directory |-> "subscription_4", name |-> "Test", id |-> "sub-4",
      file |-> "invalid", data |-> EmptyDoc],
     [directory |-> "subscription_5", name |-> "Legacy", id |-> "sub-5",
      file |-> "object", data |-> PartialDoc],
     [directory |-> "subscription_6", name |-> "Storm", id |-> "sub-6",
      file |-> "object", data |-> DocC]}

\* what glob.glob('subscription_*') can return: distinct directories
DirLists ==
    {d \in SeqsUpTo(SubscriptionDirs, MaxSubscriptions) :
        \A i, j \in DOMAIN d : i # j => d[i] # d[j]}

\* directories whose analysis_data.json is absent, not JSON, or JSON that is
\* not an object, with and without a subscription_info.txt, next to two
\* directories with a document
UnreadableDirs ==
    {[directory |-> "subscription_1", name |-> "Prod", id |-> "sub-1",
      file |-> "object", data |-> DocA],
     [directory |-> "subscription_5", name |-> "Legacy", id |-> "sub-5",
      file |-> "object", data |-> PartialDoc]}
    \cup {[directory |-> "subscription_7" \o kind, name |-> "Unknown",
           id |-> "Unknown", file |-> kind, data |-> EmptyDoc] :
              kind \in {"absent", "invalid", "not_object"}}
    \cup {[directory |-> "subscription_8" \o kind, name |-> "Test",
           id |-> "sub-8", file |-> kind, data |-> EmptyDoc] :
              kind \in {"absent", "invalid", "not_object"}}

UnreadableDirLists ==
    {d \in SeqsUpTo(UnreadableDirs, MaxSubscriptions) :
        \A i, j \in DOMAIN d : i # j => d[i] # d[j]}

\* runs of one kind of record that put the daily average of one day below,
\* at and above the high-volume mark
DaysActivity ==
    {Run(k, n) : k \in TuningKinds,
                 n \in {0, 1, HighVolume - 1, HighVolume, HighVolume + 1}}

-----------------------------------------------------------------------------
(* The batch run *)

NotComputed == [status |-> "not computed"]

\* AzureAlertCrawler.__init__: self.stats
NewStats ==
    [subscriptions_processed |-> 0, subscriptions_successful |-> 0,
     subscriptions_failed |-> 0, api_calls_made |-> 0, rate_limit_hits |-> 0]

InitBatch ==
    /\ analysis = NotComputed
    /\ report = NotComputed
    /\ consolidated = NotComputed
    /\ dashboard = NotComputed
    /\ analysis_data = NotComputed
    /\ pc = "start"

\* the batch run over files that are there: no collection in progress
InitRest ==
    /\ InitBatch
    /\ az_faults = <<>>
    /\ parallel_processing = TRUE
    /\ stats = NewStats
    /\ tasks = <<>>
    /\ analysis_132921 = NotComputed

Init ==
    /\ activity_alerts \in SeqsUpTo(ActivityShapes, MaxActivity)
    /\ alert_history \in SeqsUpTo(HistoryShapes, MaxHistory)
    /\ days_back \in DaysBackValues
    /\ subscription_dirs = <<>>
    /\ InitRest

InitStorm ==
    /\ activity_alerts \in StormInputs
    /\ alert_history = <<>>
    /\ days_back = 7
    /\ subscription_dirs = <<>>
    /\ InitRest

InitTuning ==
    /\ activity_alerts \in TuningInputs
    /\ alert_history \in TuningHistory
    /\ days_back = 7
    /\ subscription_dirs = <<>>
    /\ InitRest

InitFields ==
    /\ activity_alerts \in SeqsUpTo(FieldActivityShapes, MaxActivity)
    /\ alert_history \in FieldHistoryLists
    /\ days_back = 7
    /\ subscription_dirs = <<>>
    /\ InitRest

InitStates ==
    /\ activity_alerts \in StateActivityLists
    /\ alert_history \in SeqsUpTo(StateHistoryShapes, MaxHistory)
    /\ days_back = 7
    /\ subscription_dirs = <<>>
    /\ InitRest

InitRollup ==
    /\ activity_alerts = <<>>
    /\ alert_history = <<>>
    /\ days_back \in DaysBackValues
    /\ subscription_dirs \in DirLists
    /\ InitRest

InitDays ==
    /\ activity_alerts \in DaysActivity
    /\ alert_history \in TuningHistory
    /\ days_back \in DaysBackValues
    /\ subscription_dirs = <<>>
    /\ InitRest

InitUnreadable ==
    /\ activity_alerts = <<>>
    /\ alert_history = <<>>
    /\ days_back = 7
    /\ subscription_dirs \in UnreadableDirLists
    /\ InitRest

\* analysis = analyze_alerts(days_back); an exception ends the analyzer
Analyze ==
    /\ pc = "start"
    /\ analysis' \in AnalyzeAlerts(LoadedRecords(activity_alerts, days_back),
                                  LoadedRecords(alert_history, days_back))
    /\ pc' = IF Aborted(analysis') THEN "crashed" ELSE "analyzed"
    /\ UNCHANGED <<activity_alerts, alert_history, days_back, report,
                   subscription_dirs, consolidated, dashboard, analysis_data>>
    /\ UNCHANGED <<crawler_vars, analysis_132921>>

\* report = generate_report(analysis, days_back); an exception ends the run
Report ==
    /\ pc = "analyzed"
    /\ report' = GenerateReport(analysis, days_back)
    /\ pc' = IF report'.status = "ok" THEN "reported" ELSE "failed"
    /\ UNCHANGED <<activity_alerts, alert_history, days_back, analysis,
                   subscription_dirs, consolidated, dashboard, analysis_data>>
    /\ UNCHANGED <<crawler_vars, analysis_132921>>

\* analysis_report.txt and analysis_data.json are written
WriteOutputs ==
    /\ pc = "reported"
    /\ analysis_data' = AnalysisJson(analysis)
    /\ pc' = "written"
    /\ UNCHANGED <<activity_alerts, alert_history, days_back, analysis, report,
                   subscription_dirs, consolidated, dashboard>>
    /\ UNCHANGED <<crawler_vars, analysis_132921>>

\* the working directory of main(): the subscription directories and the
\* files earlier runs of main() wrote
WorkingDirectory ==
    subscription_dirs
        \o (IF Aborted(consolidated) THEN <<>>
            ELSE <<OutputFile("tenant_analysis_data.json")>>)
        \o (IF dashboard.status = "ok"
            THEN <<OutputFile("tenant_dashboard.html")>> ELSE <<>>)

\* consolidated_data = aggregate_subscription_data(); main() may be run
\* again after it finished
Aggregate ==
    /\ pc \in {"written", "failed", "crashed", "done", "rollup_crashed"}
    /\ consolidated' = AggregateSubscriptionData(Glob(WorkingDirectory))
    /\ pc' = IF Aborted(consolidated') THEN "rollup_crashed" ELSE "aggregated"
    /\ UNCHANGED <<activity_alerts, alert_history, days_back, analysis, report,
                   subscription_dirs, dashboard, analysis_data>>
    /\ UNCHANGED <<crawler_vars, analysis_132921>>

\* dashboard_html = create_consolidated_dashboard(consolidated_data)
Dashboard ==
    /\ pc = "aggregated"
    /\ dashboard' = CreateConsolidatedDashboard(consolidated)
    /\ pc' = "done"
    /\ UNCHANGED <<activity_alerts, alert_history, days_back, analysis, report,
                   subscription_dirs, consolidated, analysis_data>>
    /\ UNCHANGED <<crawler_vars, analysis_132921>>

Next == Analyze \/ Report \/ WriteOutputs \/ Aggregate \/ Dashboard

Spec == Init /\ [][Next]_vars

SpecStorm == InitStorm /\ [][Next]_vars

SpecTuning == InitTuning /\ [][Next]_vars

SpecRollup == InitRollup /\ [][Next]_vars

SpecFields == InitFields /\ [][Next]_vars

SpecDays == InitDays /\ [][Next]_vars

SpecUnreadable == InitUnreadable /\ [][Next]_vars

SpecStates == InitStates /\ [][Next]_vars

-----------------------------------------------------------------------------
(* The analyzer of the 132921 collection (its analyze_alerts.py): the same   *)
(* passes over the same two files, without the type tests and the except     *)
(* clauses of the 171957 variant, and without the state, lifecycle and       *)
(* resource health containers. Its inputs in this model carry strings,       *)
(* nulls, dicts and absent keys.                                             *)

KeyError(line) == [status |-> "KeyError", line |-> line]

ValueErrorAt(line) == [status |-> "ValueError", line |-> line]

\* the analysis containers of the 132921 analyze_alerts
EmptyAnalysis132921(total) ==
    [total_alerts |-> total,
     severity_breakdown |-> <<>>,
     resource_type_breakdown |-> <<>>,
     resource_group_breakdown |-> <<>>,
     hourly_distribution |-> <<>>,
     daily_distribution |-> <<>>,
     top_alerting_resources |-> <<>>,
     correlation_patterns |-> <<>>,
     tuning_recommendations |-> <<>>,
     alert_storms |-> <<>>,
     maintenance_windows |-> <<>>]

\* `if alert[key]: counter[alert[key]] += 1`: the value itself is the key
CountField132921(c, v) ==
    IF Truthy(v) THEN Inc(c, v.s) ELSE c

\* one iteration of `for alert in activity_alerts`: alert['level'] and the
\* other subscripts raise KeyError on an absent key, fromisoformat raises
\* ValueError on a string that is no timestamp
ActivityStep132921(a, alert) ==
    IF Aborted(a) THEN a
    ELSE IF alert.level.t = "missing" THEN KeyError(37)
    ELSE IF alert.resourceType.t = "missing" THEN KeyError(39)
    ELSE IF alert.resourceGroup.t = "missing" THEN KeyError(41)
    ELSE IF alert.resourceId.t = "missing" THEN KeyError(43)
    ELSE IF alert.timestamp.t = "missing" THEN KeyError(47)
    ELSE IF Truthy(alert.timestamp) /\ ~fromisoformat(alert.timestamp.s).ok
    THEN ValueErrorAt(48)
    ELSE
    LET a1 == [a EXCEPT
                 !.severity_breakdown = CountField132921(@, alert.level),
                 !.resource_type_breakdown =
                     CountField132921(@, alert.resourceType),
                 !.resource_group_breakdown =
                     CountField132921(@, alert.resourceGroup),
                 !.top_alerting_resources =
                     CountField132921(@, alert.resourceId)]
    IN IF Truthy(alert.timestamp)
       THEN LET dt == fromisoformat(alert.timestamp.s)
            IN [a1 EXCEPT !.hourly_distribution = Inc(@, dt.hour),
                          !.daily_distribution = Inc(@, dt.date)]
       ELSE a1

\* one iteration of `for alert in alert_history`: alert.get(key) reads an
\* absent key as None; a dict as a Counter key is a TypeError
HistoryStep132921NoResource(a, alert) ==
    IF Aborted(a) THEN a
    ELSE IF Truthy(Get(alert.targetResourceType))
            /\ ~Hashable(Get(alert.targetResourceType))
    THEN TypeError(59)
    ELSE [a EXCEPT
            !.severity_breakdown = CountField132921(@, Get(alert.severity)),
            !.resource_type_breakdown =
                CountField132921(@, Get(alert.targetResourceType)),
            !.resource_group_breakdown =
                CountField132921(@, Get(alert.targetResourceGroup))]

HistoryStep132921(a, alert) ==
    IF Aborted(a) THEN a
    ELSE IF Truthy(Get(alert.targetResourceType))
            /\ ~Hashable(Get(alert.targetResourceType))
    THEN TypeError(59)
    ELSE [a EXCEPT
            !.severity_breakdown = CountField132921(@, Get(alert.severity)),
            !.resource_type_breakdown =
                CountField132921(@, Get(alert.targetResourceType)),
            !.resource_group_breakdown =
                CountField132921(@, Get(alert.targetResourceGroup)),
            !.top_alerting_resources =
                CountField132921(@, Get(alert.targetResource))]

\* `for alert in activity_alerts`, iterations lo..hi in order, starting from a
RECURSIVE ActivityLoop132921(_, _, _, _)
ActivityLoop132921(a, alerts, lo, hi) ==
    IF lo > hi THEN a
    ELSE IF lo = hi THEN ActivityStep132921(a, alerts[lo])
    ELSE LET left == ActivityLoop132921(a, alerts, lo, (lo + hi) \div 2)
         IN IF left = left
            THEN ActivityLoop132921(left, alerts, (lo + hi) \div 2 + 1, hi)
            ELSE left

\* `for alert in alert_history`, iterations lo..hi in order, starting from a
RECURSIVE HistoryLoop132921(_, _, _, _)
HistoryLoop132921(a, alerts, lo, hi) ==
    IF lo > hi THEN a
    ELSE IF lo = hi THEN HistoryStep132921(a, alerts[lo])
    ELSE LET left == HistoryLoop132921(a, alerts, lo, (lo + hi) \div 2)
         IN IF left = left
            THEN HistoryLoop132921(left, alerts, (lo + hi) \div 2 + 1, hi)
            ELSE left

\* analysis after the two breakdown loops
Breakdowns132921(activity, history) ==
    HistoryLoop132921(
        ActivityLoop132921(EmptyAnalysis132921(Len(activity) + Len(history)),
                           activity, 1, Len(activity)),
        history, 1, Len(history))

\* one iteration of the time_windows loop; the timestamps parse, or the
\* first loop has raised
TimeWindowStep132921(d, alert) ==
    IF Truthy(alert.timestamp)
    THEN AppendTo(d, WindowOf(fromisoformat(alert.timestamp.s)), alert)
    ELSE d

RECURSIVE TimeWindowsLoop132921(_, _, _, _)
TimeWindowsLoop132921(d, alerts, lo, hi) ==
    IF lo > hi THEN d
    ELSE IF lo = hi THEN TimeWindowStep132921(d, alerts[lo])
    ELSE LET left == TimeWindowsLoop132921(d, alerts, lo, (lo + hi) \div 2)
         IN IF left = left
            THEN TimeWindowsLoop132921(left, alerts, (lo + hi) \div 2 + 1, hi)
            ELSE left

\* one iteration of the correlation_groups loop: alert.get('correlationId')
CorrelationGroupStep132921(d, alert) ==
    IF Truthy(Get(alert.correlationId))
    THEN AppendTo(d, Get(alert.correlationId).s, alert)
    ELSE d

RECURSIVE CorrelationGroupsLoop132921(_, _, _, _)
CorrelationGroupsLoop132921(d, alerts, lo, hi) ==
    IF lo > hi THEN d
    ELSE IF lo = hi THEN CorrelationGroupStep132921(d, alerts[lo])
    ELSE LET left == CorrelationGroupsLoop132921(d, alerts, lo, (lo + hi) \div 2)
         IN IF left = left
            THEN CorrelationGroupsLoop132921(left, alerts, (lo + hi) \div 2 + 1, hi)
            ELSE left

\* set([a['resourceId'] for a in alerts if a['resourceId']])
ResourceSet132921(alerts) ==
    {alerts[i].resourceId.s :
        i \in {j \in DOMAIN alerts : Truthy(alerts[j].resourceId)}}

\* the possible values of analysis['alert_storms']: windows of more than 10
\* alerts, with list(set(...))[:5] of their resources
AlertStorms132921(activity) ==
    LET f == StormWindows(TimeWindowsLoop132921(<<>>, activity, 1, Len(activity)))
        lists == UNION {SampleLists(ResourceSet132921(f[i].v)) : i \in DOMAIN f}
    IN {[i \in DOMAIN f |->
            [time |-> isoformat(f[i].k), count |-> Len(f[i].v),
             resources |-> pick[i]]] :
        pick \in {p \in [DOMAIN f -> lists] :
                     \A i \in DOMAIN f :
                         p[i] \in SampleLists(ResourceSet132921(f[i].v))}}

\* the possible values of analysis['correlation_patterns']: groups of more
\* than 2 alerts
CorrelationPatterns132921(activity) ==
    LET f == CorrelatedGroups(
                 CorrelationGroupsLoop132921(<<>>, activity, 1, Len(activity)))
        lists == UNION {SampleLists(ResourceSet132921(f[i].v)) : i \in DOMAIN f}
    IN {[i \in DOMAIN f |->
            [correlation_id |-> f[i].k, alert_count |-> Len(f[i].v),
             resources |-> pick[i], time_span |-> "Multiple related alerts"]] :
        pick \in {p \in [DOMAIN f -> lists] :
                     \A i \in DOMAIN f :
                         p[i] \in SampleLists(ResourceSet132921(f[i].v))}}

\* sum(1 for a in activity_alerts if a['resourceId'] == resource and
\* a['level'] in ['Warning', 'Informational'])
LowSevCount132921(activity, resource) ==
    Cardinality({i \in DOMAIN activity :
        /\ activity[i].resourceId = Str(resource)
        /\ activity[i].level \in {Str("Warning"), Str("Informational")}})

RECURSIVE Recommend132921(_, _)
Recommend132921(top, activity) ==
    IF top = <<>> THEN <<>>
    ELSE (IF NeedsTuning(LowSevCount132921(activity, Head(top).k), Head(top).n)
          THEN <<[resource |-> Head(top).k, alert_count |-> Head(top).n,
                  recommendation |->
                    "Consider adjusting thresholds or reducing alert sensitivity"]>>
          ELSE <<>>) \o Recommend132921(Tail(top), activity)

\* the possible outcomes of the 132921 analyze_alerts: the returned
\* analysis, or the exception that ended it
AnalyzeAlerts132921(activity, history) ==
    LET a == Breakdowns132921(activity, history)
    IN IF Aborted(a) THEN {a}
       ELSE {[a EXCEPT !.alert_storms = storms,
                       !.tuning_recommendations =
                           Recommend132921(
                               MostCommon(a.top_alerting_resources, TopResources),
                               activity),
                       !.correlation_patterns = patterns] :
             storms \in AlertStorms132921(activity),
             patterns \in CorrelationPatterns132921(activity)}

\* activity records for the two variants: every field a string or null, or
\* (the last three) a field absent or a timestamp that does not parse
VariantKinds ==
    {Activity(Str("Warning"), Str("resourceA"), Str("2025-08-22T10:00:00Z"),
              Str("corr-1")),
     Activity(Str("Informational"), Str("resourceA"),
              Str("2025-08-22T10:04:59Z"), None),
     Activity(Str("Error"), Str("resourceB"),
              Str("2025-08-22T10:02:30.500000Z"), None),
     Activity(Str("Warning"), None, Str("2025-08-22T10:05:00Z"), Str("corr-2")),
     Activity(None, Str("resourceB"), None, Str("")),
     [Activity(Str(""), Str(""), Str("2025-08-23T23:59:59Z"), None)
        EXCEPT !.resourceType = None, !.resourceGroup = Str("")],
     Activity(Missing, Str("resourceA"), Str("2025-08-22T10:00:00Z"), None),
     Activity(Str("Warning"), Str("resourceA"), Missing, Str("corr-1")),
     Activity(Str("Warning"), Str("resourceB"), Str("not-a-date"), None)}

\* run lengths around the thresholds of tuning and storm detection
VariantRunLengths == {0, 1, MinTuningCount + 1, StormThreshold + 1}

VariantActivity ==
    {Run(k1, n1) \o Run(k2, n2) :
        k1 \in VariantKinds, k2 \in VariantKinds,
        n1 \in VariantRunLengths, n2 \in VariantRunLengths}

\* history records: every field a string or null, or (the last) a dict
VariantHistoryKinds ==
    {[History(Str("Sev1"), Str("HighCPU"), Str("New"), Str("resourceA"))
        EXCEPT !.targetResourceType = Str("Microsoft.Sql/servers")],
     [History(None, None, None, None)
        EXCEPT !.targetResourceType = None, !.targetResourceGroup = None,
               !.startDateTime = None],
     History(Str("Sev1"), Str("HighCPU"), Str("New"), Str("resourceA"))}

VariantHistory ==
    {Run(k, n) : k \in VariantHistoryKinds, n \in {0, 1, MinTuningCount + 1}}

InitVariants ==
    /\ activity_alerts \in VariantActivity
    /\ alert_history \in VariantHistory
    /\ days_back = 7
    /\ subscription_dirs = <<>>
    /\ InitRest

\* analysis = analyze_alerts(days_back) of the 132921 variant
Analyze132921 ==
    /\ analysis_132921 = NotComputed
    /\ analysis_132921' \in AnalyzeAlerts132921(activity_alerts, alert_history)
    /\ UNCHANGED <<activity_alerts, alert_history, days_back, analysis, report,
                   subscription_dirs, consolidated, dashboard, analysis_data, pc>>
    /\ UNCHANGED crawler_vars

NextVariants == Analyze \/ Analyze132921

SpecVariants == InitVariants /\ [][NextVariants]_vars

-----------------------------------------------------------------------------
(* The collector (azure_alert_crawler.py): collect_all_data runs one         *)
(* _collect_subscription_data per subscription, in a thread pool or in turn. *)
(* The threads share self.stats; `self.stats[k] += 1` reads the counter and  *)
(* stores it in two steps between which another thread can run.              *)

\* the subscriptions _get_subscriptions returned
Subscriptions == <<"sub-a", "sub-b">>

\* the az commands collect_all_data runs before the first task: az account
\* show, az account list
StartupCommands == <<"account show", "account list">>

\* the collectors of _collect_subscription_data, one az command each
Components ==
    <<"subscription_info", "activity_alerts", "alert_history", "metric_rules",
      "maintenance_windows">>

\* az for a subscription: sound, one timeout or one rate-limit error on the
\* first execution of the activity-log command, or no access at all
AzFaults == {"none", "timeout_once", "rate_limit_once", "no_access"}

\* what subprocess.run gives for the attempt-th execution of the command
Response(fault, component, attempt) ==
    IF component = "activity_alerts" /\ attempt = 1
    THEN CASE fault = "timeout_once" -> "TimeoutExpired"
           [] fault = "rate_limit_once" -> "rate limit"
           [] OTHER -> "ok"
    ELSE "ok"

\* self.config.get('max_workers', 3)
MaxWorkers == 3

QueuedTask ==
    [pc |-> "queued", component |-> 1, loaded |-> 0, attempts |-> 0,
     activity_file |-> "none", activity_success |-> FALSE,
     invocations |-> 0, rate_limit_failures |-> 0]

\* the state when the tasks are about to be submitted
InitCrawler ==
    /\ activity_alerts = <<>>
    /\ alert_history = <<>>
    /\ days_back = 7
    /\ subscription_dirs = <<>>
    /\ InitBatch
    /\ az_faults \in [DOMAIN Subscriptions -> AzFaults]
    /\ parallel_processing \in BOOLEAN
    /\ stats = [NewStats EXCEPT !.api_calls_made = Len(StartupCommands)]
    /\ tasks = [s \in DOMAIN Subscriptions |-> QueuedTask]
    /\ analysis_132921 = NotComputed

\* what a step of a task leaves alone: the files of the batch run and the
\* configuration
rest_vars ==
    <<activity_alerts, alert_history, days_back, analysis, report,
      subscription_dirs, consolidated, dashboard, analysis_data, pc,
      az_faults, parallel_processing, analysis_132921>>

Running(s) ==
    tasks[s].pc \in {"count_load", "count_store", "run", "hit_load", "hit_store",
                     "hit_sleep"}

\* a pool thread (or the loop of the sequential mode) takes the task:
\* `az account set` with check=True raises when the subscription is not
\* accessible
Start(s) ==
    /\ tasks[s].pc = "queued"
    /\ \A j \in 1..(s - 1) : tasks[j].pc # "queued"
    /\ IF parallel_processing
       THEN Cardinality({t \in DOMAIN tasks : Running(t)})
                < Min(MaxWorkers, Len(Subscriptions))
       ELSE \A j \in 1..(s - 1) : tasks[j].pc = "collected"
    /\ tasks' = [tasks EXCEPT ![s].pc =
                    IF az_faults[s] = "no_access" THEN "raised" ELSE "count_load"]
    /\ UNCHANGED stats
    /\ UNCHANGED rest_vars

\* _run_az_command: the read of self.stats['api_calls_made'] += 1
CountLoad(s) ==
    /\ tasks[s].pc = "count_load"
    /\ tasks' = [tasks EXCEPT ![s].pc = "count_store",
                              ![s].loaded = stats.api_calls_made,
                              ![s].invocations = @ + 1]
    /\ UNCHANGED stats
    /\ UNCHANGED rest_vars

\* _run_az_command: the store of self.stats['api_calls_made'] += 1
CountStore(s) ==
    /\ tasks[s].pc = "count_store"
    /\ stats' = [stats EXCEPT !.api_calls_made = tasks[s].loaded + 1]
    /\ tasks' = [tasks EXCEPT ![s].pc = "run", ![s].loaded = 0]
    /\ UNCHANGED rest_vars

\* the collector returns: on to the next collector, or the task returns
Advance(t) ==
    IF t.component = Len(Components)
    THEN [t EXCEPT !.pc = "returned"]
    ELSE [t EXCEPT !.pc = "count_load", !.component = @ + 1]

\* the collector got (success, data) from _run_az_command: it writes the
\* data, or [] on failure
Collected(t, success) ==
    IF Components[t.component] = "activity_alerts"
    THEN Advance([t EXCEPT !.activity_success = success,
                           !.activity_file = IF success THEN "data" ELSE "empty"])
    ELSE Advance(t)

\* _run_az_command: subprocess.run and the except clauses
RunAzCommand(s) ==
    /\ tasks[s].pc = "run"
    /\ LET t == tasks[s]
           activity == Components[t.component] = "activity_alerts"
           attempt == IF activity THEN t.attempts + 1 ELSE 1
           response == Response(az_faults[s], Components[t.component], attempt)
           ran == [t EXCEPT !.attempts = IF activity THEN attempt ELSE @]
       IN tasks' = [tasks EXCEPT ![s] =
              CASE response = "ok" -> Collected(ran, TRUE)
                [] response = "TimeoutExpired" -> Collected(ran, FALSE)
                [] response = "rate limit" ->
                       [ran EXCEPT !.pc = "hit_load",
                                   !.rate_limit_failures = @ + 1]]
    /\ UNCHANGED stats
    /\ UNCHANGED rest_vars

\* the read of self.stats['rate_limit_hits'] += 1
HitLoad(s) ==
    /\ tasks[s].pc = "hit_load"
    /\ tasks' = [tasks EXCEPT ![s].pc = "hit_store",
                              ![s].loaded = stats.rate_limit_hits]
    /\ UNCHANGED stats
    /\ UNCHANGED rest_vars

\* the store of self.stats['rate_limit_hits'] += 1; the thread then sleeps
HitStore(s) ==
    /\ tasks[s].pc = "hit_store"
    /\ stats' = [stats EXCEPT !.rate_limit_hits = tasks[s].loaded + 1]
    /\ tasks' = [tasks EXCEPT ![s].pc = "hit_sleep", ![s].loaded = 0]
    /\ UNCHANGED rest_vars

\* time.sleep(5) is over: `return False, error_msg`, and the collector
\* writes [] and returns
ReturnAfterSleep(s) ==
    /\ tasks[s].pc = "hit_sleep"
    /\ tasks' = [tasks EXCEPT ![s] = Collected(tasks[s], FALSE)]
    /\ UNCHANGED stats
    /\ UNCHANGED rest_vars

\* collect_all_data takes the result of a task: future.result() returns the
\* dict (collection_success is True) or raises
Collect(s) ==
    /\ tasks[s].pc \in {"returned", "raised"}
    /\ stats' = IF tasks[s].pc = "returned"
                THEN [stats EXCEPT !.subscriptions_processed = @ + 1,
                                   !.subscriptions_successful = @ + 1]
                ELSE [stats EXCEPT !.subscriptions_failed = @ + 1]
    /\ tasks' = [tasks EXCEPT ![s].pc = "collected"]
    /\ UNCHANGED rest_vars

NextCrawler ==
    \E s \in DOMAIN Subscriptions :
        \/ Start(s)
        \/ CountLoad(s)
        \/ CountStore(s)
        \/ RunAzCommand(s)
        \/ HitLoad(s)
        \/ HitStore(s)
        \/ ReturnAfterSleep(s)
        \/ Collect(s)

SpecCrawler == InitCrawler /\ [][NextCrawler]_vars

-----------------------------------------------------------------------------
(* Properties *)

Analyzed == pc # "start" /\ ~Aborted(analysis)

Reported == pc \notin {"start", "analyzed"} /\ report # NotComputed

Aggregated == pc \in {"aggregated", "done"}

\* C1: total_alerts is the number of activity records plus the number of
\* history records, whatever fields the records carry and however many of
\* them are equal.
C1_TotalAlerts ==
    Analyzed =>
        analysis.total_alerts = Len(activity_alerts) + Len(alert_history)

\* two equal activity records, three history records, and records that
\* contribute to no severity count
C1_Witness ==
    /\ pc = "analyzed"
    /\ Len(activity_alerts) = 2 /\ Len(alert_history) = 3
    /\ activity_alerts[1] = activity_alerts[2]
    /\ alert_history[1] = alert_history[3]
    /\ NoFields \in {activity_alerts[i] : i \in DOMAIN activity_alerts}
    /\ analysis.total_alerts = 5

\* a Counter as the mapping key -> count, without its insertion order
CountsOf(c) == [key \in Keys(c) |-> Count(c, key)]

NestedCountsOf(d) == [outer \in Keys(d) |-> CountsOf(d[Index(d, outer)].v)]

\* the totals of a tenant document: scalar, lifecycle counters, every
\* breakdown map
TenantTotals(c) ==
    [total_alerts |-> c.total_alerts,
     alert_lifecycle_metrics |-> c.alert_lifecycle_metrics,
     severity_breakdown |-> CountsOf(c.severity_breakdown),
     alert_state_breakdown |-> CountsOf(c.alert_state_breakdown),
     alert_state_by_severity |-> NestedCountsOf(c.alert_state_by_severity),
     top_alerts_by_severity |->
         [s \in SevLevels |-> CountsOf(c.top_alerts_by_severity[s])],
     resource_type_breakdown |-> CountsOf(c.resource_type_breakdown),
     resource_group_breakdown |-> CountsOf(c.resource_group_breakdown),
     top_alerting_resources |-> CountsOf(c.top_alerting_resources)]

Permuted(dirs, p) == [i \in DOMAIN dirs |-> dirs[p[i]]]

FlatBreakdowns ==
    {"severity_breakdown", "alert_state_breakdown", "resource_type_breakdown",
     "resource_group_breakdown", "top_alerting_resources"}

\* the tenant totals of a list are the key-wise sums of the totals of its
\* two parts, wherever the list is cut
SplitsAdd(dirs) ==
    \A cut \in 0..Len(dirs) :
        LET whole == AggregateSubscriptionData(dirs)
            left == AggregateSubscriptionData(SubSeq(dirs, 1, cut))
            right == AggregateSubscriptionData(SubSeq(dirs, cut + 1, Len(dirs)))
        IN /\ whole.total_alerts = left.total_alerts + right.total_alerts
           /\ \A f \in {"new_alerts", "acknowledged_alerts", "closed_alerts"} :
                 whole.alert_lifecycle_metrics[f] =
                     left.alert_lifecycle_metrics[f] + right.alert_lifecycle_metrics[f]
           /\ \A b \in FlatBreakdowns : \A key \in Keys(whole[b]) :
                 Count(whole[b], key) = Count(left[b], key) + Count(right[b], key)
           /\ \A s \in SevLevels : \A key \in Keys(whole.top_alerts_by_severity[s]) :
                 Count(whole.top_alerts_by_severity[s], key) =
                     Count(left.top_alerts_by_severity[s], key)
                       + Count(right.top_alerts_by_severity[s], key)
           /\ \A o \in Keys(whole.alert_state_by_severity) :
                 \A key \in Keys(whole.alert_state_by_severity[
                                    Index(whole.alert_state_by_severity, o)].v) :
                     CountNested(whole.alert_state_by_severity, o, key) =
                         CountNested(left.alert_state_by_severity, o, key)
                           + CountNested(right.alert_state_by_severity, o, key)

\* C2: the tenant totals (total_alerts, lifecycle counters, every key of
\* every breakdown map) are the same for every order in which the
\* subscription directories are processed, and for every grouping of them.
C2_OrderIndependent ==
    Aggregated =>
        /\ \A p \in Permutations(DOMAIN subscription_dirs) :
              TenantTotals(AggregateSubscriptionData(Permuted(subscription_dirs, p)))
                  = TenantTotals(consolidated)
        /\ SplitsAdd(subscription_dirs)

\* three directories, two of them with documents that share keys
C2_Witness ==
    /\ pc = "done"
    /\ Len(subscription_dirs) = 3
    /\ Count(consolidated.severity_breakdown, "Sev1") = 4
    /\ Count(consolidated.severity_breakdown, "Error") = 2
    /\ consolidated.total_alerts = 9

ModelWindows ==
    {DateTime("2025-08-22", 10, 0, 0, 0), DateTime("2025-08-22", 10, 5, 0, 0),
     DateTime("2025-08-23", 23, 55, 0, 0)}

\* the activity records whose timestamp parses and falls in window w
InWindow(w) ==
    {i \in DOMAIN activity_alerts :
        /\ ParsedTime(activity_alerts[i].timestamp).ok
        /\ WindowOf(ParsedTime(activity_alerts[i].timestamp)) = w}

StormsAt(w) ==
    {i \in DOMAIN analysis.alert_storms :
        analysis.alert_storms[i].time = isoformat(w)}

\* C3: a window yields one alert_storms entry iff it holds more than 10
\* activity records (none at exactly 10, one at 11), and the entry's count
\* is the number of records of the window.
C3_StormThreshold ==
    Analyzed =>
        /\ \A w \in ModelWindows :
              /\ Cardinality(StormsAt(w)) =
                     IF Cardinality(InWindow(w)) > 10 THEN 1 ELSE 0
              /\ \A i \in StormsAt(w) :
                     analysis.alert_storms[i].count = Cardinality(InWindow(w))
        /\ \A i \in DOMAIN analysis.alert_storms :
              \E w \in ModelWindows : i \in StormsAt(w)

\* one window with exactly 10 records and no entry, another with 11 and
\* its entry
C3_Witness ==
    /\ pc = "analyzed"
    /\ \E w1, w2 \in ModelWindows :
          /\ Cardinality(InWindow(w1)) = 10 /\ StormsAt(w1) = {}
          /\ Cardinality(InWindow(w2)) = 11
          /\ \E i \in StormsAt(w2) : analysis.alert_storms[i].count = 11
    /\ Len(analysis.alert_storms) = 1

ModelCorrelationIds == {"corr-1", "corr-2", ""}

\* the activity records carrying the correlation id
WithCorrelationId(id) ==
    {i \in DOMAIN activity_alerts :
        /\ activity_alerts[i].correlationId.t = "str"
        /\ activity_alerts[i].correlationId.s = id}

PatternsOf(id) ==
    {i \in DOMAIN analysis.correlation_patterns :
        analysis.correlation_patterns[i].correlation_id = id}

\* C4: a correlation id yields at most one correlation_patterns entry,
\* present iff more than 2 activity records carry the id (none at 2, one at
\* 3), with alert_count the number of those records; records without an id
\* (absent, null, empty) are in no group.
C4_CorrelationThreshold ==
    Analyzed =>
        /\ \A id \in ModelCorrelationIds \ {""} :
              /\ Cardinality(PatternsOf(id)) =
                     IF Cardinality(WithCorrelationId(id)) > 2 THEN 1 ELSE 0
              /\ \A i \in PatternsOf(id) :
                     analysis.correlation_patterns[i].alert_count =
                         Cardinality(WithCorrelationId(id))
        /\ \A i \in DOMAIN analysis.correlation_patterns :
              analysis.correlation_patterns[i].correlation_id
                  \in ModelCorrelationIds \ {""}

\* a group of 2 without an entry beside a group of 3 with its entry
C4_Witness ==
    /\ pc = "analyzed"
    /\ \E a, b \in ModelCorrelationIds \ {""} :
          /\ Cardinality(WithCorrelationId(a)) = 2 /\ PatternsOf(a) = {}
          /\ Cardinality(WithCorrelationId(b)) = 3
          /\ \E i \in PatternsOf(b) :
                analysis.correlation_patterns[i].alert_count = 3

Recommended ==
    {analysis.tuning_recommendations[i].resource :
        i \in DOMAIN analysis.tuning_recommendations}

\* C5 as claimed: a resource is recommended iff it is among the 20 most
\* alerting resources, its total count exceeds 5, and 10 * low > 7 * total
\* for low the number of its Warning / Informational activity records.
C5_TuningRule ==
    Analyzed =>
        \A r \in Keys(analysis.top_alerting_resources) :
            LET total == Count(analysis.top_alerting_resources, r)
                low == LowSevCount(activity_alerts, r)
            IN r \in Recommended <=>
                 /\ r \in Keys(MostCommon(analysis.top_alerting_resources, 20))
                 /\ total > 5
                 /\ 10 * low > 7 * total

\* C6: with total_alerts = 0 every percentage computed from a breakdown is
\* 0 and none of these computations raises: the severity and state
\* percentages and the low-severity share of the report, the severity and
\* state percentages of the tenant dashboard.
C6_ZeroTotalPercentages ==
    /\ (Reported /\ analysis.total_alerts = 0) =>
          IF report.status = "ok"
          THEN /\ \A i \in DOMAIN report.severity :
                     IsZero(report.severity[i].percentage)
               /\ \A i \in DOMAIN report.state :
                     IsZero(report.state[i].percentage)
               /\ IsZero(report.low_sev_percentage)
          ELSE report.line \notin {267, 275, 380}
    /\ (pc = "done" /\ consolidated.total_alerts = 0) =>
          /\ dashboard.status = "ok"
          /\ \A i \in DOMAIN dashboard.severity :
                IsZero(dashboard.severity[i].percentage)
          /\ \A i \in DOMAIN dashboard.state :
                IsZero(dashboard.state[i].percentage)

\* no alerts in the subscription and in the tenant, with tenant breakdowns
\* that are not empty, and both renderings done
C6_Witness ==
    /\ pc = "done"
    /\ analysis.total_alerts = 0 /\ report.status = "ok"
    /\ consolidated.total_alerts = 0
    /\ Len(dashboard.severity) = 2 /\ Len(dashboard.state) = 1

\* C7 as claimed: generate_report completes for every analysis document and
\* every days_back, 0 included.
C7_ReportCompletes == Reported => report.status = "ok"

\* C8 as claimed: the rates are acknowledged/new and closed/new when
\* new_alerts > 0 and are reported as 0 when new_alerts = 0.
C8_RatesReportedAsZero ==
    (Reported /\ report.status = "ok") =>
        LET lc == analysis.alert_lifecycle_metrics
        IN /\ report.ack_rate.shown /\ report.close_rate.shown
           /\ IF lc.new_alerts > 0
              THEN /\ report.ack_rate.rate =
                         PyDiv(lc.acknowledged_alerts * 100, lc.new_alerts)
                   /\ report.close_rate.rate =
                         PyDiv(lc.closed_alerts * 100, lc.new_alerts)
              ELSE IsZero(report.ack_rate.rate) /\ IsZero(report.close_rate.rate)

\* start <= t < start + 5 minutes, with start on a multiple of 5 minutes
\* and no seconds
IsWindowOf(w, dt) ==
    /\ w.ok /\ w.date = dt.date /\ w.hour = dt.hour
    /\ w.minute % 5 = 0 /\ w.second = 0 /\ w.microsecond = 0
    /\ w.minute * 60 <= dt.minute * 60 + dt.second
    /\ dt.minute * 60 + dt.second < w.minute * 60 + 300

Parseable ==
    {i \in DOMAIN activity_alerts : ParsedTime(activity_alerts[i].timestamp).ok}

\* the 11 events of the example: all on resourceA, from 10:00:00 to 10:04:59
ElevenInOneWindow ==
    /\ Len(activity_alerts) = 11
    /\ \A i \in DOMAIN activity_alerts :
          /\ activity_alerts[i].resourceId = Str("resourceA")
          /\ i \in Parseable
          /\ LET dt == ParsedTime(activity_alerts[i].timestamp)
             IN dt.date = "2025-08-22" /\ dt.hour = 10 /\ dt.minute <= 4

\* C9: every activity record with a parseable timestamp is in exactly one
\* window, the one that starts at its timestamp with the minute floored to
\* a multiple of 5 and the seconds zeroed; windows do not overlap; and 11
\* events from 10:00:00Z to 10:04:59Z on resourceA give exactly one storm,
\* at 10:00:00Z, with count 11 and resources {resourceA}.
C9_WindowAssignment ==
    Analyzed =>
        LET tw == TimeWindows(activity_alerts)
        IN /\ \A i \in Parseable :
                 LET dt == ParsedTime(activity_alerts[i].timestamp)
                 IN /\ IsWindowOf(WindowOf(dt), dt)
                    /\ Cardinality({g \in DOMAIN tw :
                           \E j \in DOMAIN tw[g].v :
                               tw[g].v[j] = activity_alerts[i]}) = 1
           /\ \A g \in DOMAIN tw : \A j \in DOMAIN tw[g].v :
                 IsWindowOf(tw[g].k, ParsedTime(tw[g].v[j].timestamp))
           /\ \A g, h \in DOMAIN tw : g # h => tw[g].k # tw[h].k
           /\ SumSeq([g \in DOMAIN tw |-> Len(tw[g].v)]) = Cardinality(Parseable)
           /\ ElevenInOneWindow =>
                 analysis.alert_storms =
                     <<[time |-> "2025-08-22T10:00:00+00:00", count |-> 11,
                        resources |-> <<"resourceA">>]>>

\* the example, with events at both ends of the window
C9_Witness ==
    /\ pc = "analyzed"
    /\ ElevenInOneWindow
    /\ \E i, j \in DOMAIN activity_alerts :
          /\ activity_alerts[i].timestamp = Str("2025-08-22T10:00:00Z")
          /\ activity_alerts[j].timestamp = Str("2025-08-22T10:04:59Z")
    /\ Len(analysis.alert_storms) = 1

\* exactly three history records, all carrying corr-1, and no activity
\* record carrying it
ThreeCorrelatedHistory ==
    /\ Len(alert_history) = 3
    /\ \A i \in DOMAIN alert_history :
          alert_history[i].correlationId = Str("corr-1")
    /\ \A i \in DOMAIN activity_alerts :
          activity_alerts[i].correlationId # Str("corr-1")

\* C10 as claimed: three history records sharing corr-1 give exactly one
\* correlation pattern for corr-1, with alert_count 3.
C10_HistoryPattern ==
    (Analyzed /\ ThreeCorrelatedHistory) =>
        /\ Cardinality(PatternsOf("corr-1")) = 1
        /\ \A i \in PatternsOf("corr-1") :
              analysis.correlation_patterns[i].alert_count = 3

\* C10 amended: three history records sharing corr-1, with no activity
\* record carrying it, give no correlation pattern for corr-1: only
\* activity records are grouped.
C10_NoHistoryPattern ==
    (Analyzed /\ ThreeCorrelatedHistory) => PatternsOf("corr-1") = {}

C10_Witness ==
    /\ pc = "analyzed"
    /\ ThreeCorrelatedHistory
    /\ activity_alerts # <<>>
    /\ analysis.correlation_patterns = <<>>

\* what the claimed normalization makes of a resource type field: the
\* string itself, value / localizedValue / rendering for a structured
\* value, None (absent) for every other shape
ClaimedResourceType(v) ==
    LET x == Get(v)
    IN IF ~Truthy(x) THEN None
       ELSE IF x.t = "str" THEN x
       ELSE IF x.t = "dict" THEN ResourceTypeValue(x)
       ELSE None

\* the number of records that the claimed normalization counts under key
ClaimedResourceTypeCount(key) ==
    Cardinality({i \in DOMAIN activity_alerts :
                    ClaimedResourceType(activity_alerts[i].resourceType) = Str(key)})
    + Cardinality({i \in DOMAIN alert_history :
                    ClaimedResourceType(alert_history[i].targetResourceType) = Str(key)})

ModelResourceTypes ==
    {"Microsoft.Compute/virtualMachines", "Microsoft.Sql/servers", "SQL server",
     "{'value': None, 'localizedValue': None}", "5", "True", "['a']"}

\* C11 as claimed: resource_type_breakdown counts a string as is, a
\* structured value under its value, else its localizedValue, else its
\* rendering, and a field of any other shape (number, boolean, list) under
\* no key.
C11_ResourceTypeNormalization ==
    Analyzed =>
        /\ Keys(analysis.resource_type_breakdown) \subseteq ModelResourceTypes
        /\ \A key \in ModelResourceTypes :
              Count(analysis.resource_type_breakdown, key) =
                  ClaimedResourceTypeCount(key)

\* C12 as claimed: whatever the shapes of the fields, analyze_alerts runs
\* to completion and returns a document.
C12_NeverAborts == pc # "start" => ~Aborted(analysis)

\* the activity records with a parseable timestamp kept, the others given a
\* valid one
Retimed(alerts) ==
    [i \in DOMAIN alerts |->
        IF ParsedTime(alerts[i].timestamp).ok THEN alerts[i]
        ELSE [alerts[i] EXCEPT !.timestamp = GoodTimestamp]]

ParseableHistory ==
    {i \in DOMAIN alert_history : ParsedTime(alert_history[i].startDateTime).ok}

\* a correlation group without its records: the id and how many they are
GroupSizes(d) == [i \in DOMAIN d |-> [k |-> d[i].k, n |-> Len(d[i].v)]]

\* C13: an activity record whose timestamp does not parse is in no hourly
\* or daily bucket and in no storm window, and its contribution to the
\* severity, resource type, resource group and resource id counts, to the
\* correlation groups and to the tuning counts is that of the same record
\* with a valid timestamp.
C13_UnparsedTimestamp ==
    Analyzed =>
        LET retimed == Retimed(activity_alerts)
            other == Breakdowns(retimed, alert_history)
            tw == TimeWindows(activity_alerts)
        IN /\ SumSeq([i \in DOMAIN analysis.hourly_distribution |->
                         analysis.hourly_distribution[i].n])
                 = Cardinality(Parseable) + Cardinality(ParseableHistory)
           /\ SumSeq([i \in DOMAIN analysis.daily_distribution |->
                         analysis.daily_distribution[i].n])
                 = Cardinality(Parseable) + Cardinality(ParseableHistory)
           /\ \A g \in DOMAIN tw : \A j \in DOMAIN tw[g].v :
                 ParsedTime(tw[g].v[j].timestamp).ok
           /\ SumSeq([g \in DOMAIN tw |-> Len(tw[g].v)]) = Cardinality(Parseable)
           /\ analysis.severity_breakdown = other.severity_breakdown
           /\ analysis.resource_type_breakdown = other.resource_type_breakdown
           /\ analysis.resource_group_breakdown = other.resource_group_breakdown
           /\ analysis.top_alerting_resources = other.top_alerting_resources
           /\ GroupSizes(CorrelationGroups(activity_alerts))
                 = GroupSizes(CorrelationGroups(retimed))
           /\ \A r \in Keys(analysis.top_alerting_resources) :
                 LowSevCount(activity_alerts, r) = LowSevCount(retimed, r)
           /\ analysis.tuning_recommendations =
                 TuningRecommendations(other, retimed)

\* two activity records that differ in the timestamp only, one of which
\* does not parse, and a history record
C13_Witness ==
    /\ pc = "analyzed"
    /\ Len(activity_alerts) = 2 /\ Len(alert_history) = 1
    /\ Cardinality(Parseable) = 1
    /\ Retimed(activity_alerts)[1] = Retimed(activity_alerts)[2]
    /\ Count(analysis.severity_breakdown, "Warning") = 2
    /\ Count(analysis.hourly_distribution, 10) = 2

\* the history records of the given severity string and name value
HistoryNamed(sev, name) ==
    {i \in DOMAIN alert_history :
        /\ alert_history[i].severity = Str(sev)
        /\ alert_history[i].name = name}

ModelNames == {"HighCPU", "DiskFull", "", "Unknown Alert"}

ModelSeverities == SevLevels \cup {"Critical", "Warning"}

\* every severity string is counted in severity_breakdown, by history
\* severity and activity level
SeverityCounted ==
    \A sev \in ModelSeverities :
        Count(analysis.severity_breakdown, sev) =
            Cardinality({i \in DOMAIN alert_history :
                            alert_history[i].severity = Str(sev)})
            + Cardinality({i \in DOMAIN activity_alerts :
                            activity_alerts[i].level = Str(sev)})

\* C14 as claimed: top_alerts_by_severity[severity][name] counts the history
\* records with that severity and that name for the five levels only, other
\* severities are counted in severity_breakdown only, and a record with no
\* name increments no entry.
C14_TopAlertsNamedOnly ==
    Analyzed =>
        /\ DOMAIN analysis.top_alerts_by_severity = SevLevels
        /\ SeverityCounted
        /\ \A sev \in SevLevels :
              /\ Keys(analysis.top_alerts_by_severity[sev]) \subseteq ModelNames
              /\ \A name \in ModelNames :
                    Count(analysis.top_alerts_by_severity[sev], name) =
                        Cardinality(HistoryNamed(sev, Str(name)))

\* C14 amended: as claimed, except that a record without a name key counts
\* under the name Unknown Alert; a record whose name is present and not a
\* string increments no entry.
C14_TopAlertsDefaultName ==
    Analyzed =>
        /\ DOMAIN analysis.top_alerts_by_severity = SevLevels
        /\ SeverityCounted
        /\ \A sev \in SevLevels :
              /\ Keys(analysis.top_alerts_by_severity[sev]) \subseteq ModelNames
              /\ \A name \in ModelNames :
                    Count(analysis.top_alerts_by_severity[sev], name) =
                        Cardinality(HistoryNamed(sev, Str(name)))
                        + (IF name = "Unknown Alert"
                           THEN Cardinality(HistoryNamed(sev, Missing))
                           ELSE 0)

\* records without a name key, with a null name, with an unrecognized
\* severity, and a named one
C14_Witness ==
    /\ pc = "analyzed"
    /\ HistoryNamed("Sev1", Missing) # {}
    /\ HistoryNamed("Sev0", None) # {}
    /\ HistoryNamed("Critical", Str("HighCPU")) # {}
    /\ Count(analysis.top_alerts_by_severity["Sev1"], "Unknown Alert") = 1
    /\ Count(analysis.top_alerts_by_severity["Sev1"], "HighCPU") = 0
    /\ analysis.top_alerts_by_severity["Sev0"] = <<>>
    /\ Count(analysis.severity_breakdown, "Critical") = 1

\* the history records whose alertState is the string
HistoryInState(state) ==
    {i \in DOMAIN alert_history : alert_history[i].alertState = Str(state)}

ModelStates == {"New", "Acknowledged", "Closed", "Resolved", "new"}

\* C15: the three lifecycle counters are the numbers of history records in
\* state New, Acknowledged and Closed; every state string is counted in
\* alert_state_breakdown, so a record in another state changes that count
\* and no counter; activity records change none of them.
C15_LifecycleCounters ==
    Analyzed =>
        /\ analysis.alert_lifecycle_metrics =
              [new_alerts |-> Cardinality(HistoryInState("New")),
               acknowledged_alerts |-> Cardinality(HistoryInState("Acknowledged")),
               closed_alerts |-> Cardinality(HistoryInState("Closed"))]
        /\ Keys(analysis.alert_state_breakdown) \subseteq ModelStates
        /\ \A st \in ModelStates :
              Count(analysis.alert_state_breakdown, st) =
                  Cardinality(HistoryInState(st))

\* activity records that carry alertState New, history records in states
\* Resolved and new, and two Closed ones
C15_Witness ==
    /\ pc = "analyzed"
    /\ \E i \in DOMAIN activity_alerts : activity_alerts[i].alertState = Str("New")
    /\ HistoryInState("Resolved") # {} /\ HistoryInState("new") # {}
    /\ HistoryInState("New") = {}
    /\ analysis.alert_lifecycle_metrics.new_alerts = 0
    /\ Count(analysis.alert_state_breakdown, "Resolved") = 1
    /\ Len(alert_history) = 3

\* what a run yields for storms and correlation patterns
Detections(outcomes) ==
    {[alert_storms |-> a.alert_storms,
      correlation_patterns |-> a.correlation_patterns] : a \in outcomes}

\* C16: alert_storms and correlation_patterns are those of the same activity
\* records with no history record at all, whatever timestamps and
\* correlation ids the history records carry.
C16_HistoryNotDetected ==
    Analyzed =>
        /\ Detections(AnalyzeAlerts(activity_alerts, alert_history))
              = Detections(AnalyzeAlerts(activity_alerts, <<>>))
        /\ Detections({analysis})
              \subseteq Detections(AnalyzeAlerts(activity_alerts, <<>>))
        /\ activity_alerts = <<>> =>
              analysis.alert_storms = <<>> /\ analysis.correlation_patterns = <<>>

\* ten activity records in one window, history records with a timestamp in
\* that window and the same correlation id: no storm, one pattern of ten
C16_Witness ==
    /\ pc = "analyzed"
    /\ Len(activity_alerts) = MaxRun - 1
    /\ \E i \in DOMAIN alert_history :
          /\ alert_history[i].timestamp = activity_alerts[1].timestamp
          /\ alert_history[i].correlationId = activity_alerts[1].correlationId
    /\ analysis.alert_storms = <<>>
    /\ Len(analysis.correlation_patterns) = 1
    /\ analysis.correlation_patterns[1].alert_count = MaxRun - 1

ModelDays == {"2025-08-22", "2025-08-23"}

\* the activity records whose timestamp parses to a time t with Is(t)
ActivityAt(Is(_)) ==
    {i \in Parseable : Is(ParsedTime(activity_alerts[i].timestamp))}

\* the history records whose startDateTime parses to a time t with Is(t)
HistoryAt(Is(_)) ==
    {i \in ParseableHistory : Is(ParsedTime(alert_history[i].startDateTime))}

\* C17 as claimed: hourly_distribution and daily_distribution count the
\* activity records with a parseable timestamp and nothing else.
C17_ActivityOnlyDistributions ==
    Analyzed =>
        /\ \A h \in Hours :
              LET AtHour(t) == t.hour = h
              IN Count(analysis.hourly_distribution, h) =
                     Cardinality(ActivityAt(AtHour))
        /\ \A d \in ModelDays :
              LET OnDay(t) == t.date = d
              IN Count(analysis.daily_distribution, d) =
                     Cardinality(ActivityAt(OnDay))
        /\ SumSeq([i \in DOMAIN analysis.hourly_distribution |->
                      analysis.hourly_distribution[i].n])
              = Cardinality(Parseable)

\* C17 amended: hourly_distribution and daily_distribution count the
\* activity records with a parseable timestamp and the history records with
\* a parseable startDateTime.
C17_BothSourcesDistributions ==
    Analyzed =>
        /\ \A h \in Hours :
              LET AtHour(t) == t.hour = h
              IN Count(analysis.hourly_distribution, h) =
                     Cardinality(ActivityAt(AtHour)) + Cardinality(HistoryAt(AtHour))
        /\ \A d \in ModelDays :
              LET OnDay(t) == t.date = d
              IN Count(analysis.daily_distribution, d) =
                     Cardinality(ActivityAt(OnDay)) + Cardinality(HistoryAt(OnDay))
        /\ Keys(analysis.hourly_distribution) \subseteq Hours
        /\ Keys(analysis.daily_distribution) \subseteq ModelDays
        /\ SumSeq([i \in DOMAIN analysis.hourly_distribution |->
                      analysis.hourly_distribution[i].n])
              = Cardinality(Parseable) + Cardinality(ParseableHistory)

\* two activity records at 10:00 and history records starting at 10:05, at
\* 23:59:59 the next day and at no parseable time
C17_Witness ==
    /\ pc = "analyzed"
    /\ Len(activity_alerts) = 2
    /\ Len(alert_history) = 3 /\ Cardinality(ParseableHistory) = 2
    /\ Count(analysis.hourly_distribution, 10) = 3
    /\ Count(analysis.hourly_distribution, 23) = 1
    /\ Count(analysis.daily_distribution, "2025-08-23") = 1

\* the documents the tenant run reads: {} for an invalid file, nothing for
\* a directory without a file
SubscriptionDocs ==
    [i \in DOMAIN subscription_dirs |->
        IF subscription_dirs[i].file = "object"
        THEN subscription_dirs[i].data ELSE EmptyDoc]

\* the sum over the subscription documents of what each holds, with
\* Held(doc) the value of one document
SumOverDocs(Held(_)) ==
    SumSeq([i \in DOMAIN SubscriptionDocs |-> Held(SubscriptionDocs[i])])

\* the keys the documents carry in a breakdown map
DocKeysOf(b) ==
    UNION {Keys(DocGet(SubscriptionDocs[i], b, <<>>)) : i \in DOMAIN SubscriptionDocs}

\* the inner keys the documents carry in a nested map
DocInnerKeysOf(b) ==
    UNION {UNION {Keys(DocGet(SubscriptionDocs[i], b, <<>>)[j].v) :
                      j \in DOMAIN DocGet(SubscriptionDocs[i], b, <<>>)} :
           i \in DOMAIN SubscriptionDocs}

\* C18: total_alerts, the three lifecycle counters and, for every key, the
\* value in each breakdown map and nested map of the tenant document are
\* the sums of that value over the subscription documents, a missing key
\* counting as 0.
C18_KeyWiseSums ==
    Aggregated =>
        /\ LET Total(doc) == DocGet(doc, "total_alerts", 0)
           IN consolidated.total_alerts = SumOverDocs(Total)
        /\ \A f \in {"new_alerts", "acknowledged_alerts", "closed_alerts"} :
              LET Counter(doc) ==
                      DocGet(doc, "alert_lifecycle_metrics",
                             EmptyDoc.alert_lifecycle_metrics)[f]
              IN consolidated.alert_lifecycle_metrics[f] = SumOverDocs(Counter)
        /\ \A b \in FlatBreakdowns :
              /\ Keys(consolidated[b]) = DocKeysOf(b)
              /\ \A key \in DocKeysOf(b) :
                    LET Value(doc) == Count(DocGet(doc, b, <<>>), key)
                    IN Count(consolidated[b], key) = SumOverDocs(Value)
        /\ Keys(consolidated.alert_state_by_severity)
              = DocKeysOf("alert_state_by_severity")
        /\ \A sev \in DocKeysOf("alert_state_by_severity") :
              \A st \in DocInnerKeysOf("alert_state_by_severity") :
                  LET Value(doc) ==
                          CountNested(DocGet(doc, "alert_state_by_severity", <<>>),
                                      sev, st)
                  IN CountNested(consolidated.alert_state_by_severity, sev, st)
                         = SumOverDocs(Value)
        /\ DocKeysOf("top_alerts_by_severity") \subseteq SevLevels
        /\ \A sev \in SevLevels :
              \A name \in DocInnerKeysOf("top_alerts_by_severity")
                            \cup Keys(consolidated.top_alerts_by_severity[sev]) :
                  LET Value(doc) ==
                          CountNested(DocGet(doc, "top_alerts_by_severity", <<>>),
                                      sev, name)
                  IN Count(consolidated.top_alerts_by_severity[sev], name)
                         = SumOverDocs(Value)

\* three documents that share severities, states, alert names and resources,
\* next to a directory without a file
C18_Witness ==
    /\ pc = "done"
    /\ {subscription_dirs[i].data : i \in DOMAIN subscription_dirs}
          = {DocA, DocB, EmptyDoc}
    /\ \E i \in DOMAIN subscription_dirs : subscription_dirs[i].file = "absent"
    /\ Count(consolidated.top_alerts_by_severity["Sev1"], "HighCPU") = 3
    /\ CountNested(consolidated.alert_state_by_severity, "Sev1", "New") = 3
    /\ consolidated.alert_lifecycle_metrics.new_alerts = 3
    /\ Count(consolidated.top_alerting_resources, "resourceA") = 5

\* C19: the tenant document's hourly_distribution and daily_distribution
\* hold, for every hour and every day, the sum of the subscription counts.
C19_DistributionsSummed ==
    Aggregated =>
        \A b \in {"hourly_distribution", "daily_distribution"} :
            \A key \in DocKeysOf(b) :
                LET Value(doc) == Count(DocGet(doc, b, <<>>), key)
                IN Count(consolidated[b], key) = SumOverDocs(Value)

\* C20: the tenant document's alert_storms, correlation_patterns and
\* tuning_recommendations are empty, whatever the subscription documents
\* hold in these lists.
C20_DetailListsEmpty ==
    Aggregated =>
        /\ consolidated.alert_storms = <<>>
        /\ consolidated.correlation_patterns = <<>>
        /\ consolidated.tuning_recommendations = <<>>

\* a subscription document with a storm, a correlation pattern and a tuning
\* recommendation went into the tenant document
C20_Witness ==
    /\ pc = "done"
    /\ \E i \in DOMAIN SubscriptionDocs :
          /\ DocGet(SubscriptionDocs[i], "alert_storms", <<>>) # <<>>
          /\ DocGet(SubscriptionDocs[i], "correlation_patterns", <<>>) # <<>>
          /\ DocGet(SubscriptionDocs[i], "tuning_recommendations", <<>>) # <<>>
    /\ consolidated.total_alerts >= MaxRun
    /\ consolidated.alert_storms = <<>>

\* the rollup was run, whether it returned or raised
RollupRan == pc \in {"aggregated", "done", "rollup_crashed"}

\* the directories whose analysis_data.json is missing or unreadable
Unreadable == {i \in DOMAIN subscription_dirs : subscription_dirs[i].file # "object"}

Readable(dir) == dir.file = "object"

\* C21 as claimed: with a directory whose analysis_data.json is absent, not
\* JSON or not a JSON object, aggregate_subscription_data returns, the
\* directory adds nothing to the tenant totals, and its summary record has
\* total_alerts 0, has_data false and the name and id Unknown.
C21_UnreadableCountsAsEmpty ==
    RollupRan =>
        /\ ~Aborted(consolidated)
        /\ TenantTotals(consolidated) =
              TenantTotals(AggregateSubscriptionData(
                  SelectSeq(subscription_dirs, Readable)))
        /\ \A i \in Unreadable :
              /\ consolidated.subscription_summary[i].total_alerts = 0
              /\ ~consolidated.subscription_summary[i].has_data
              /\ consolidated.subscription_summary[i].name = "Unknown"
              /\ consolidated.subscription_summary[i].id = "Unknown"

\* C22: subscription_summary has one record per subscription directory, in
\* the order of the directories; has_data is total_alerts > 0; the tenant
\* total_alerts is the sum of the records' total_alerts.
C22_SummaryPerDirectory ==
    Aggregated =>
        LET summary == consolidated.subscription_summary
        IN /\ Len(summary) = Len(subscription_dirs)
           /\ \A i \in DOMAIN summary :
                 /\ summary[i].directory = subscription_dirs[i].directory
                 /\ summary[i].has_data <=> summary[i].total_alerts > 0
           /\ consolidated.total_alerts =
                  SumSeq([i \in DOMAIN summary |-> summary[i].total_alerts])

\* a directory without a file, one with a document that has breakdowns and
\* no total_alerts, one with alerts
C22_Witness ==
    /\ pc = "done"
    /\ Len(subscription_dirs) = 3
    /\ {subscription_dirs[i].file : i \in DOMAIN subscription_dirs}
          = {"absent", "object"}
    /\ {consolidated.subscription_summary[i].has_data :
           i \in DOMAIN subscription_dirs} = {TRUE, FALSE}
    /\ \E i \in DOMAIN subscription_dirs :
          /\ subscription_dirs[i].data = PartialDoc
          /\ ~consolidated.subscription_summary[i].has_data
    /\ consolidated.total_alerts = 5

OutputNames == {"tenant_analysis_data.json", "tenant_dashboard.html"}

\* C23: a further run of main returns the tenant document and the dashboard
\* of the run before, no step changes a subscription directory, and the
\* directories a run reads never include a file main wrote.
C23_RerunIdempotent ==
    [][/\ subscription_dirs' = subscription_dirs
       /\ \A i \in DOMAIN Glob(WorkingDirectory) :
             Glob(WorkingDirectory)[i].directory \notin OutputNames
       /\ pc \in {"done", "rollup_crashed"} => consolidated' = consolidated
       /\ (pc = "aggregated" /\ dashboard # NotComputed) => dashboard' = dashboard
      ]_vars

\* main ran twice over two or more directories with alerts, the second time
\* with both output files in the working directory
C23_Witness ==
    /\ pc = "aggregated"
    /\ dashboard # NotComputed
    /\ Len(subscription_dirs) >= 2
    /\ Len(WorkingDirectory) = Len(subscription_dirs) + 2
    /\ consolidated.total_alerts > 0

\* what analyze_alerts can return for the input files when called with d
AnalysisFor(d) ==
    AnalyzeAlerts(LoadedRecords(activity_alerts, d),
                  LoadedRecords(alert_history, d))

\* a report without its title, its average and its high-volume warning
WithoutDays(r) ==
    [f \in DOMAIN r \ {"days_back", "average", "high_volume"} |-> r[f]]

\* C24: analyze_alerts returns the same document for every days_back; the
\* reports for two values of days_back differ in nothing but the title, the
\* average alerts/day and the high-volume warning, which is given when the
\* average exceeds 100; for days_back 0 the average is a division by zero.
C24_DaysBackDisplayOnly ==
    Analyzed =>
        /\ \A d \in DaysBackValues :
              AnalysisFor(d) = AnalysisFor(days_back) /\ analysis \in AnalysisFor(d)
        /\ \A d \in DaysBackValues :
              LET r == GenerateReport(analysis, d)
              IN IF d = 0
                 THEN r = [status |-> "ZeroDivisionError", line |-> 260]
                 ELSE /\ r.status = "ok"
                      /\ r.days_back = d
                      /\ r.average = [num |-> analysis.total_alerts, den |-> d]
                      /\ r.high_volume <=> analysis.total_alerts > HighVolume * d
                      /\ WithoutDays(r) = WithoutDays(GenerateReport(analysis, 7))
        /\ Reported => report = GenerateReport(analysis, days_back)

\* 101 alerts reported for one day with the high-volume warning, which the
\* report of the same alerts for seven days does not give
C24_Witness ==
    /\ pc = "reported"
    /\ days_back = 1
    /\ analysis.total_alerts = HighVolume + 1
    /\ report.high_volume
    /\ ~GenerateReport(analysis, 7).high_volume
    /\ alert_history # <<>>

\* the resource a record is counted under in top_alerting_resources, in the
\* order in which analyze_alerts reads the records
ResourcesRead ==
    [i \in DOMAIN activity_alerts |-> activity_alerts[i].resourceId]
        \o [i \in DOMAIN alert_history |-> alert_history[i].targetResource]

\* where the resource is first encountered
FirstRead(resource) ==
    CHOOSE i \in DOMAIN ResourcesRead :
        /\ ResourcesRead[i] = Str(resource)
        /\ \A j \in 1..(i - 1) : ResourcesRead[j] # Str(resource)

\* how often the resource is encountered
TimesRead(resource) ==
    Cardinality({i \in DOMAIN ResourcesRead : ResourcesRead[i] = Str(resource)})

ResourcesSeen ==
    {ResourcesRead[i].s : i \in {j \in DOMAIN ResourcesRead : IsNonEmptyStr(ResourcesRead[j])}}

\* C25: the serialized top_alerting_resources holds min(20, number of
\* resources) distinct resources with their counts; no omitted resource has
\* a larger count than an included one; of an omitted and an included
\* resource with equal counts the included one was encountered first.
C25_TopTwentyResources ==
    pc = "written" =>
        LET top == analysis_data.top_alerting_resources
            included == Keys(top)
            omitted == ResourcesSeen \ included
        IN /\ Len(top) = Min(TopResources, Cardinality(ResourcesSeen))
           /\ Cardinality(included) = Len(top)
           /\ included \subseteq ResourcesSeen
           /\ \A k \in included : Count(top, k) = TimesRead(k)
           /\ \A o \in omitted : \A k \in included :
                 /\ TimesRead(o) <= TimesRead(k)
                 /\ TimesRead(o) = TimesRead(k) => FirstRead(k) < FirstRead(o)

\* twenty-one resources with six alerts each: the one read last is omitted
C25_Witness ==
    /\ pc = "written"
    /\ Cardinality(ResourcesSeen) = TopResources + 1
    /\ \A r \in ResourcesSeen : TimesRead(r) = 6
    /\ Len(analysis_data.top_alerting_resources) = TopResources
    /\ "resourceA" \notin Keys(analysis_data.top_alerting_resources)
    /\ ResourcesRead[Len(ResourcesRead)] = Str("resourceA")

CountingMaps ==
    {"severity_breakdown", "alert_state_breakdown", "resource_type_breakdown",
     "resource_group_breakdown", "top_alerting_resources",
     "hourly_distribution", "daily_distribution"}

\* the values of a counting map
Values(c) == [i \in DOMAIN c |-> c[i].n]

\* C26: every value of every counting map, flat or nested, is a positive
\* integer, and the values of each of the seven flat maps sum to at most
\* total_alerts.
C26_AtMostOncePerMap ==
    Analyzed =>
        /\ \A b \in CountingMaps :
              /\ \A i \in DOMAIN analysis[b] : analysis[b][i].n \in Nat \ {0}
              /\ SumSeq(Values(analysis[b])) <= analysis.total_alerts
        /\ \A i \in DOMAIN analysis.alert_state_by_severity :
              \A j \in DOMAIN analysis.alert_state_by_severity[i].v :
                  analysis.alert_state_by_severity[i].v[j].n \in Nat \ {0}
        /\ \A sev \in SevLevels :
              /\ \A j \in DOMAIN analysis.top_alerts_by_severity[sev] :
                    analysis.top_alerts_by_severity[sev][j].n \in Nat \ {0}
        /\ SumSeq([i \in 1..5 |->
                      SumSeq(Values(analysis.top_alerts_by_severity[
                          <<"Sev0", "Sev1", "Sev2", "Sev3", "Sev4">>[i]]))])
              <= Len(alert_history)

\* as many records as the bounds allow, each with a severity, some without
\* a resource, history records among those with a time
C26_Witness ==
    /\ pc = "analyzed"
    /\ Len(activity_alerts) = MaxActivity /\ Len(alert_history) = MaxHistory
    /\ SumSeq(Values(analysis.severity_breakdown)) = analysis.total_alerts
    /\ SumSeq(Values(analysis.top_alerting_resources)) < analysis.total_alerts
    /\ SumSeq(Values(analysis.hourly_distribution)) > Len(activity_alerts)
    /\ \E i \in DOMAIN analysis.severity_breakdown :
          analysis.severity_breakdown[i].n > 1

\* the string resourceIds of the activity records with an index in I
ResourceIdsOf(I) ==
    {activity_alerts[i].resourceId.s :
        i \in {j \in I : IsNonEmptyStr(activity_alerts[j].resourceId)}}

\* the first n distinct resourceIds of those records, in encounter order
FirstEncountered(I, n) ==
    LET First(r) ==
            CHOOSE i \in I :
                /\ activity_alerts[i].resourceId = Str(r)
                /\ \A j \in I : j < i => activity_alerts[j].resourceId # Str(r)
        Position(r) ==
            1 + Cardinality({o \in ResourceIdsOf(I) : First(o) < First(r)})
    IN [k \in 1..Min(n, Cardinality(ResourceIdsOf(I))) |->
           CHOOSE r \in ResourceIdsOf(I) : Position(r) = k]

\* a list of min(SampleSize, number of ids) distinct ids of the records
IsSampleOf(resources, I) ==
    /\ Len(resources) = Min(SampleSize, Cardinality(ResourceIdsOf(I)))
    /\ \A i \in DOMAIN resources : resources[i] \in ResourceIdsOf(I)
    /\ \A i, j \in DOMAIN resources : i # j => resources[i] # resources[j]

\* C27 as claimed: the resources of a storm or pattern are the first five
\* distinct string resourceIds of its window or group, in encounter order.
C27_FirstFiveEncountered ==
    Analyzed =>
        /\ \A w \in ModelWindows : \A i \in StormsAt(w) :
              analysis.alert_storms[i].resources
                  = FirstEncountered(InWindow(w), SampleSize)
        /\ \A id \in ModelCorrelationIds : \A i \in PatternsOf(id) :
              analysis.correlation_patterns[i].resources
                  = FirstEncountered(WithCorrelationId(id), SampleSize)

\* C27 amended: the resources of a storm or pattern are min(5, number of
\* distinct ids) distinct string resourceIds of records of its window or
\* group; which ones and in which order is not determined.
C27_DistinctSample ==
    Analyzed =>
        /\ \A w \in ModelWindows : \A i \in StormsAt(w) :
              IsSampleOf(analysis.alert_storms[i].resources, InWindow(w))
        /\ \A id \in ModelCorrelationIds : \A i \in PatternsOf(id) :
              IsSampleOf(analysis.correlation_patterns[i].resources,
                         WithCorrelationId(id))

\* a storm over six resources whose five listed resources are not the
\* first five encountered
C27_Witness ==
    /\ pc = "analyzed"
    /\ \E w \in ModelWindows : \E i \in StormsAt(w) :
          /\ Cardinality(ResourceIdsOf(InWindow(w))) = SampleSize + 1
          /\ Len(analysis.alert_storms[i].resources) = SampleSize
          /\ analysis.alert_storms[i].resources[1] = FillerNames[SampleSize + 1]
          /\ analysis.alert_storms[i].resources
                # FirstEncountered(InWindow(w), SampleSize)

\* the task of the subscription is over
TaskOver(s) == tasks[s].pc \in {"returned", "collected"}

\* C28 as claimed: when the first execution of the activity-log command
\* times out or is throttled and a second one would succeed, the command is
\* executed again and the task ends with the data collected.
C28_TransientFailureRetried ==
    \A s \in DOMAIN tasks :
        (TaskOver(s) /\ az_faults[s] \in {"timeout_once", "rate_limit_once"}) =>
            /\ tasks[s].attempts >= 2
            /\ tasks[s].activity_success
            /\ tasks[s].activity_file = "data"

\* collect_all_data has taken the result of every task
Finished ==
    tasks # <<>> /\ \A s \in DOMAIN tasks : tasks[s].pc = "collected"

\* C29 as claimed: in parallel mode, once every task is collected,
\* api_calls_made is the number of _run_az_command invocations,
\* rate_limit_hits the number of rate-limit failures, and successful plus
\* failed the number of subscriptions.
C29_NoLostIncrement ==
    (Finished /\ parallel_processing) =>
        /\ stats.api_calls_made =
              Len(StartupCommands)
                  + SumSeq([s \in DOMAIN tasks |-> tasks[s].invocations])
        /\ stats.rate_limit_hits =
              SumSeq([s \in DOMAIN tasks |-> tasks[s].rate_limit_failures])
        /\ stats.subscriptions_successful + stats.subscriptions_failed
              = Len(Subscriptions)

\* a field is a string or null
StringOrNull(v) == v.t \in {"str", "none"}

\* a timestamp field parses: null or empty (not read), or an ISO timestamp
Parses(v) == Truthy(v) => fromisoformat(v.s).ok

\* the input is well formed: every record carries every expected field as a
\* string or null and every timestamp parses
WellFormed ==
    /\ \A i \in DOMAIN activity_alerts :
          LET r == activity_alerts[i]
          IN /\ \A v \in {r.level, r.resourceType, r.resourceGroup, r.resourceId,
                          r.timestamp, r.correlationId} : StringOrNull(v)
             /\ Parses(r.timestamp)
    /\ \A i \in DOMAIN alert_history :
          LET r == alert_history[i]
          IN /\ \A v \in {r.severity, r.name, r.alertState, r.targetResourceType,
                          r.targetResourceGroup, r.targetResource,
                          r.startDateTime} : StringOrNull(v)
             /\ Parses(r.startDateTime)

\* the eight fields the two variants share
Compared(a) ==
    [total_alerts |-> a.total_alerts,
     severity_breakdown |-> a.severity_breakdown,
     resource_type_breakdown |-> a.resource_type_breakdown,
     resource_group_breakdown |-> a.resource_group_breakdown,
     top_alerting_resources |-> a.top_alerting_resources,
     alert_storms |-> a.alert_storms,
     correlation_patterns |-> a.correlation_patterns,
     tuning_recommendations |-> a.tuning_recommendations]

\* both variants have run on the input
BothRan == pc # "start" /\ analysis_132921 # NotComputed

\* C30 as claimed: on well-formed input both variants return, with
\* identical total_alerts, severity_breakdown, resource_type_breakdown,
\* resource_group_breakdown, top_alerting_resources, alert_storms,
\* correlation_patterns and tuning_recommendations.
C30_VariantsIdentical ==
    (BothRan /\ WellFormed) =>
        /\ ~Aborted(analysis) /\ ~Aborted(analysis_132921)
        /\ Compared(analysis) = Compared(analysis_132921)

\* the entries of alert_storms or correlation_patterns with each resources
\* list replaced by its length
ResourcesCounted(entries) ==
    [i \in DOMAIN entries |->
        [entries[i] EXCEPT !.resources = Len(entries[i].resources)]]

\* C30 amended: on well-formed input both variants return, with identical
\* total_alerts, severity, resource type, resource group and top resource
\* counts and tuning recommendations; their alert storms and correlation
\* patterns are the same entries (time or correlation id, count, number of
\* resources listed), and the resources list of each variant is one the
\* other variant can return for that entry.
C30_VariantsAgree ==
    (BothRan /\ WellFormed) =>
        /\ ~Aborted(analysis) /\ ~Aborted(analysis_132921)
        /\ \A f \in {"total_alerts", "severity_breakdown",
                     "resource_type_breakdown", "resource_group_breakdown",
                     "top_alerting_resources", "tuning_recommendations"} :
               Compared(analysis)[f] = Compared(analysis_132921)[f]
        /\ ResourcesCounted(analysis.alert_storms)
               = ResourcesCounted(analysis_132921.alert_storms)
        /\ ResourcesCounted(analysis.correlation_patterns)
               = ResourcesCounted(analysis_132921.correlation_patterns)
        /\ Compared(analysis_132921) \in
               {Compared(x) : x \in AnalyzeAlerts(activity_alerts, alert_history)}
        /\ Compared(analysis) \in
               {Compared(y) : y \in AnalyzeAlerts132921(activity_alerts,
                                                         alert_history)}

\* both variants ran on a well-formed input with null fields and history
\* records, and found a correlation pattern, a tuning recommendation and a
\* storm over two resources, which they list in different orders
C30_Witness ==
    /\ BothRan /\ WellFormed
    /\ \E i \in DOMAIN activity_alerts : activity_alerts[i].correlationId = None
    /\ alert_history # <<>>
    /\ ~Aborted(analysis) /\ ~Aborted(analysis_132921)
    /\ \E i \in DOMAIN analysis_132921.alert_storms :
          /\ Len(analysis_132921.alert_storms[i].resources) = 2
          /\ analysis.alert_storms[i].resources
                # analysis_132921.alert_storms[i].resources
    /\ analysis_132921.correlation_patterns # <<>>
    /\ analysis_132921.tuning_recommendations # <<>>

====
